---- MODULE Spec2Model ----
(***************************************************************************)
(* Scene-clip generation pipeline of the AI Music Video Maker (App.tsx).   *)
(*                                                                         *)
(* Two execution contexts exchange messages:                               *)
(*   - the host (the React component App): Scene Store `scenes`, the       *)
(*     batch flag `isGeneratingClips`, the screen state (mode, status,     *)
(*     step) that decides which buttons exist, and worker.onmessage;       *)
(*   - the background worker (workerScript): the abort flag `isAborted`    *)
(*     and the async handlers of 'stop', 'generate-one', 'generate-all'.   *)
(* An async handler runs until its next await; every such run-to-await     *)
(* block is one atomic step of the worker here.  Remote calls and timers   *)
(* resolve in any order.                                                   *)
(*                                                                         *)
(* Scene ids are the positions 1..n (the code uses the 0-based index).     *)
(* An artifact reference is modelled by the id of the job that produced    *)
(* it (0 = undefined).  Every notification carries the id of the job that  *)
(* posted it, and every active job keeps the list of what it has posted    *)
(* so far (`sent`); neither is read by the program.                        *)
(***************************************************************************)
EXTENDS Integers, Sequences, FiniteSets, TLC

\* ---------------------------------------------------------------- bounds
MaxScenes == 3
MaxJobs == 2
\* the jobs of a session with a retry (SpecRetry)
MaxAttempts == 4
\* the scenes of a list in SpecStore
StoreScenes == 2
MaxDelay == 1
MaxResets == 1
MaxQueue == 2
MaxPending == 1
\* sizes of the section list and of the candidate list of a matching pass
MaxSections == 3
MaxCandidates == 3
MaxTokens == 4
\* seconds of countdown per minute of delay (App.tsx:171 uses 60; the model
\* scales the clock so that a one-minute delay is a two-tick countdown)
SecondsPerMinute == 2

VARIABLES
  \* host (App component state)
  mode, status, step, isKeySelected, generatedVideoUrl, uploading,
  scenes, isGeneratingPrompts, isGeneratingClips, generationDelay,
  countdown, generationStatusMessage,
  \* channels
  toWorker, toHost,
  \* worker
  isAborted, jobs, requests,
  \* bookkeeping
  nextJob, resets, staleBelow,
  \* one pass of handleGenerateScenePrompts, step by step
  lyrics, parsed, prompts, availablePrompts, sceneData, pass,
  \* what the remote calls of the session throw when they fail
  caught,
  \* the object URLs of clips handed to URL.revokeObjectURL
  revoked,
  \* the jobs numbered below it were posted before the last reset
  resetBelow

vars == <<mode, status, step, isKeySelected, generatedVideoUrl, uploading, scenes,
          isGeneratingPrompts, isGeneratingClips, generationDelay,
          countdown, generationStatusMessage, toWorker, toHost,
          isAborted, jobs, requests, nextJob, resets, staleBelow,
          lyrics, parsed, prompts, availablePrompts, sceneData, pass,
          caught, revoked, resetBelow>>

\* the variables of a matching pass, the value the remote calls throw, the
\* revoked URLs and the mark of the last reset; the pipeline but for
\* handleReset leaves them alone
passVars == <<lyrics, parsed, prompts, availablePrompts, sceneData, pass,
              caught, revoked, resetBelow>>

\* a thrown value: an Error with its message, or something else
NoError == [isError |-> FALSE, message |-> <<>>]

\* the numbers jobs are told apart by, in the order the host starts them
JobIds == 1..MaxAttempts

\* what a failed remote call ends up as after getFriendlyErrorMessage: a
\* credential-class text (it contains 'APIキー') or any other text
FailKinds == {"credential", "other"}

\* Scene of types.ts, reduced to the fields the pipeline writes
NewScene == [id |-> 0, status |-> "idle", errorMessage |-> "none",
             generatedImageBase64 |-> 0, generatedVideoUrl |-> 0]

\* the scenes of a fresh matching pass: `id: index` (App.tsx:451), counted
\* from 1 here
NewScenes(n) == [k \in 1..n |-> [NewScene EXCEPT !.id = k]]

NoJob == [kind |-> "none", batch |-> <<>>, from |-> "none", delay |-> 0,
          idx |-> 0,
          pc |-> "none", i |-> 0, image |-> 0, sent |-> <<>>,
          stopAt |-> <<>>]

\* a notification posted by the worker (self.postMessage)
Msg(j, t, s, a) == [job |-> j, type |-> t, scene |-> s, arg |-> a]

\* ------------------------------------------------------------------ host

\* useEffect of App.tsx:366-374: all scenes completed and no batch running
\* turns the app status to SUCCESS
AllCompleted(scn) == \A k \in 1..Len(scn) : scn[k].status = "completed"

SuccessEffect(st, scn, gen) ==
  IF ~gen /\ Len(scn) > 0 /\ st # "SUCCESS" /\ AllCompleted(scn)
  THEN "SUCCESS" ELSE st

\* updateScene: merge `updates` into the scene with that id, if any
\* faulty variant: the scene is replaced by the update, its other fields
\* are not carried over
updateSceneReplacing(scn, id, updates) ==
  [k \in 1..Len(scn) |->
     IF scn[k].id = id
     THEN [f \in DOMAIN scn[k] |->
             IF f \in DOMAIN updates THEN updates[f]
             ELSE IF f = "id" THEN scn[k].id ELSE NewScene[f]]
     ELSE scn[k]]

updateScene(scn, id, updates) ==
  [k \in 1..Len(scn) |->
     IF scn[k].id = id
     THEN [f \in DOMAIN scn[k] |->
             IF f \in DOMAIN updates THEN updates[f] ELSE scn[k][f]]
     ELSE scn[k]]

\* renderContent: which screen is on display
ShowsResult == status = "SUCCESS" /\ (mode = "GENERATE" \/ generatedVideoUrl)
ShowsFlow(m) == /\ isKeySelected
                /\ status # "LOADING"
                /\ ~ShowsResult
                /\ mode = m

\* the production step with its scene cards and batch controls
ShowsProduction == /\ ShowsFlow("GENERATE")
                   /\ step = "PRODUCTION"
                   /\ ~isGeneratingPrompts
                   /\ Len(scenes) > 0

\* no matching pass under way
NoPass ==
  /\ lyrics = <<>> /\ parsed = <<>> /\ prompts = <<>>
  /\ availablePrompts = <<>> /\ sceneData = <<>> /\ pass = "none"
  /\ caught = NoError
  /\ revoked = {}
  /\ resetBelow = 0

Init ==
  /\ NoPass
  /\ mode = "SELECT" /\ status = "IDLE" /\ step = "LYRICS"
  /\ isKeySelected = FALSE /\ generatedVideoUrl = FALSE
  /\ uploading = FALSE
  /\ scenes = <<>> /\ isGeneratingPrompts = FALSE
  /\ isGeneratingClips = FALSE /\ generationDelay = 1
  /\ countdown = 0 /\ generationStatusMessage = <<"">>
  /\ toWorker = <<>> /\ toHost = <<>>
  /\ isAborted = FALSE /\ jobs = [j \in JobIds |-> NoJob] /\ requests = {}
  /\ nextJob = 1 /\ resets = 0 /\ staleBelow = 1

\* SelectApiKeyScreen / checkApiKey: a key gets selected
SelectApiKey ==
  /\ ~isKeySelected
  /\ isKeySelected' = TRUE
  /\ UNCHANGED <<passVars, mode, status, step, generatedVideoUrl, uploading, scenes,
                 isGeneratingPrompts, isGeneratingClips, generationDelay,
                 countdown, generationStatusMessage, toWorker, toHost,
                 isAborted, jobs, requests, nextJob, resets, staleBelow>>

\* ModeSelectionScreen buttons and the "back to mode selection" buttons
setMode(m) ==
  /\ IF m = "SELECT" THEN ShowsFlow("GENERATE") \/ ShowsFlow("UPLOAD")
     ELSE ShowsFlow("SELECT")
  /\ mode' = m
  /\ UNCHANGED <<passVars, status, step, isKeySelected, generatedVideoUrl, uploading, scenes,
                 isGeneratingPrompts, isGeneratingClips, generationDelay,
                 countdown, generationStatusMessage, toWorker, toHost,
                 isAborted, jobs, requests, nextJob, resets, staleBelow>>

\* handleGenerateVideo (upload flow), up to its await (one call at a time)
handleGenerateVideo ==
  /\ ShowsFlow("UPLOAD") /\ ~uploading
  /\ uploading' = TRUE
  /\ status' = SuccessEffect("LOADING", scenes, isGeneratingClips)
  /\ UNCHANGED <<passVars, mode, step, isKeySelected, generatedVideoUrl, scenes,
                 isGeneratingPrompts, isGeneratingClips, generationDelay,
                 countdown, generationStatusMessage, toWorker, toHost,
                 isAborted, jobs, requests, nextJob, resets, staleBelow>>

\* handleGenerateVideo after the await: the clip arrived, or the call failed
handleGenerateVideoDone(ok, kind) ==
  /\ uploading
  /\ uploading' = FALSE
  /\ IF ok
     THEN /\ generatedVideoUrl' = TRUE
          /\ status' = "SUCCESS"
          /\ isKeySelected' = isKeySelected
     ELSE /\ generatedVideoUrl' = generatedVideoUrl
          /\ status' = SuccessEffect("ERROR", scenes, isGeneratingClips)
          /\ isKeySelected' = IF kind = "credential" THEN FALSE
                              ELSE isKeySelected
  /\ UNCHANGED <<passVars, mode, step, scenes, isGeneratingPrompts, isGeneratingClips,
                 generationDelay, countdown, generationStatusMessage,
                 toWorker, toHost, isAborted, jobs, requests, nextJob,
                 resets, staleBelow>>

\* handleGenerateLyrics + handleGenerateScenePrompts up to the await of the
\* prompt generator: the step becomes PRODUCTION and the store is cleared
handleGenerateLyrics ==
  /\ ShowsFlow("GENERATE") /\ step = "LYRICS"
  /\ step' = "PRODUCTION"
  /\ isGeneratingPrompts' = TRUE
  /\ scenes' = <<>>
  /\ UNCHANGED <<passVars, mode, status, isKeySelected, generatedVideoUrl, uploading,
                 isGeneratingClips, generationDelay, countdown,
                 generationStatusMessage, toWorker, toHost, isAborted,
                 jobs, requests, nextJob, resets, staleBelow>>

\* handleGenerateScenePrompts after the await: one idle scene per section
\* (bulk replace), or no scenes when the prompt generator failed
handleGenerateScenePrompts(n) ==
  /\ isGeneratingPrompts
  /\ isGeneratingPrompts' = FALSE
  /\ scenes' = NewScenes(n)
  /\ UNCHANGED <<passVars, mode, status, step, isKeySelected, generatedVideoUrl,
                 uploading, isGeneratingClips, generationDelay, countdown,
                 generationStatusMessage, toWorker, toHost, isAborted,
                 jobs, requests, nextJob, resets, staleBelow>>

\* the generation-delay input (enabled while no batch runs)
setGenerationDelay(d) ==
  /\ ShowsProduction /\ ~isGeneratingClips
  /\ d # generationDelay
  /\ generationDelay' = d
  /\ UNCHANGED <<passVars, mode, status, step, isKeySelected, generatedVideoUrl, uploading,
                 scenes, isGeneratingPrompts, isGeneratingClips, countdown,
                 generationStatusMessage, toWorker, toHost, isAborted,
                 jobs, requests, nextJob, resets, staleBelow>>

\* SceneEditorCard: the per-scene button is disabled during a batch and
\* while the scene itself is generating
isDisabled(id) ==
  isGeneratingClips
  \/ scenes[id].status \in {"image_generating", "video_generating"}

\* faulty variant: starting a scene drops the clip it already has
handleGenerateSingleClipWiping(id) ==
  /\ ShowsProduction
  /\ id \in 1..Len(scenes)
  /\ ~isDisabled(id)
  /\ nextJob <= MaxJobs /\ Len(toWorker) < MaxQueue
  /\ scenes' = updateScene(scenes, id, [errorMessage |-> "none",
                                        status |-> "image_generating",
                                        generatedVideoUrl |-> 0])
  /\ generationStatusMessage' = <<"start", id>>
  /\ toWorker' = Append(toWorker, [type |-> "generate-one", job |-> nextJob,
                                   scenes |-> <<id>>,
                                   from |-> scenes[id].status, delay |-> 0])
  /\ nextJob' = nextJob + 1
  /\ status' = SuccessEffect(status, scenes', isGeneratingClips)
  /\ UNCHANGED <<passVars, mode, step, isKeySelected, generatedVideoUrl, uploading,
                 isGeneratingPrompts, isGeneratingClips, generationDelay,
                 countdown, toHost, isAborted, jobs, requests, resets,
                 staleBelow>>

\* handleGenerateSingleClip, in a session of at most `cap` jobs.  The
\* message carries the scene as the host holds it before the two updates
\* (`payload: { scene, ... }`); `from` is that scene's status
handleGenerateSingleClipCapped(id, cap) ==
  /\ ShowsProduction
  /\ id \in 1..Len(scenes)
  /\ ~isDisabled(id)
  /\ nextJob <= cap /\ Len(toWorker) < MaxQueue
  /\ scenes' = updateScene(updateScene(scenes, id, [errorMessage |-> "none"]),
                           id, [status |-> "image_generating"])
  /\ generationStatusMessage' = <<"start", id>>
  /\ toWorker' = Append(toWorker, [type |-> "generate-one", job |-> nextJob,
                                   scenes |-> <<id>>,
                                   from |-> scenes[id].status, delay |-> 0])
  /\ nextJob' = nextJob + 1
  /\ status' = SuccessEffect(status, scenes', isGeneratingClips)
  /\ UNCHANGED <<passVars, mode, step, isKeySelected, generatedVideoUrl, uploading,
                 isGeneratingPrompts, isGeneratingClips, generationDelay,
                 countdown, toHost, isAborted, jobs, requests, resets,
                 staleBelow>>

\* handleGenerateSingleClip
handleGenerateSingleClip(id) == handleGenerateSingleClipCapped(id, MaxJobs)

\* faulty variant: the stop button does the cleanup itself, at once
handleStopGenerationEager ==
  /\ ShowsProduction /\ isGeneratingClips
  /\ Len(toWorker) < MaxQueue
  /\ toWorker' = Append(toWorker, [type |-> "stop", job |-> 0,
                                   scenes |-> <<>>, from |-> "none",
                                   delay |-> 0])
  /\ generationStatusMessage' = <<"stopping">>
  /\ scenes' = [k \in 1..Len(scenes) |->
                  IF scenes[k].status \in {"image_generating",
                                           "video_generating"}
                  THEN [scenes[k] EXCEPT !.status = "idle"] ELSE scenes[k]]
  /\ isGeneratingClips' = FALSE
  /\ UNCHANGED <<passVars, mode, status, step, isKeySelected, generatedVideoUrl, uploading,
                 isGeneratingPrompts, generationDelay, countdown, toHost,
                 isAborted, jobs, requests, nextJob, resets, staleBelow>>

\* handleStopGeneration (the stop button replaces the batch button while
\* isGeneratingClips)
handleStopGeneration ==
  /\ ShowsProduction /\ isGeneratingClips
  /\ Len(toWorker) < MaxQueue
  /\ toWorker' = Append(toWorker, [type |-> "stop", job |-> 0,
                                   scenes |-> <<>>, from |-> "none",
                                   delay |-> 0])
  /\ generationStatusMessage' = <<"stopping">>
  /\ UNCHANGED <<passVars, mode, status, step, isKeySelected, generatedVideoUrl, uploading,
                 scenes, isGeneratingPrompts, isGeneratingClips,
                 generationDelay, countdown, toHost, isAborted, jobs,
                 requests, nextJob, resets, staleBelow>>

\* scenes.filter(s => s.status === 'idle' || s.status === 'error'), as ids
RECURSIVE FilterIds(_, _)
FilterIds(scn, k) ==
  IF k > Len(scn) THEN <<>>
  ELSE IF scn[k].status \in {"idle", "error"}
       THEN <<k>> \o FilterIds(scn, k + 1)
       ELSE FilterIds(scn, k + 1)

\* faulty variant: every scene that is not completed, a scene in flight
\* included
scenesToGenerateNotCompleted ==
  SelectSeq([k \in 1..Len(scenes) |-> k],
            LAMBDA k : scenes[k].status # "completed")

scenesToGenerate == FilterIds(scenes, 1)

\* handleGenerateAllClips (button enabled while some scene is not
\* completed), in a session of at most `cap` jobs
handleGenerateAllClipsCapped(cap) ==
  /\ ShowsProduction /\ ~isGeneratingClips
  /\ \E k \in 1..Len(scenes) : scenes[k].status # "completed"
  /\ Len(scenesToGenerate) > 0
  /\ nextJob <= cap /\ Len(toWorker) < MaxQueue
  /\ isGeneratingClips' = TRUE
  /\ generationStatusMessage' = <<"">>
  /\ toWorker' = Append(toWorker, [type |-> "generate-all", job |-> nextJob,
                                   scenes |-> scenesToGenerate,
                                   from |-> "none",
                                   delay |-> generationDelay])
  /\ nextJob' = nextJob + 1
  /\ UNCHANGED <<passVars, mode, status, step, isKeySelected, generatedVideoUrl, uploading,
                 scenes, isGeneratingPrompts, generationDelay, countdown,
                 toHost, isAborted, jobs, requests, resets, staleBelow>>

\* handleGenerateAllClips
handleGenerateAllClips == handleGenerateAllClipsCapped(MaxJobs)

\* the object URL a scene holds: the worker makes one per clip
\* (URL.createObjectURL, App.tsx:54), told apart here by the scene and the
\* job it was made for
VideoRefs(scn) ==
  {<<scn[k].id, scn[k].generatedVideoUrl>> :
     k \in {k \in 1..Len(scn) : scn[k].generatedVideoUrl # 0}}

\* faulty variant: the scenes are dropped with their clips still live
handleResetLeaking ==
  /\ isKeySelected /\ ShowsResult
  /\ resets < MaxResets
  /\ resets' = resets + 1
  /\ status' = "IDLE" /\ mode' = "SELECT" /\ step' = "LYRICS"
  /\ generatedVideoUrl' = FALSE
  /\ scenes' = <<>>
  /\ isGeneratingClips' = FALSE /\ isGeneratingPrompts' = FALSE
  /\ resetBelow' = nextJob
  /\ UNCHANGED <<lyrics, parsed, prompts, availablePrompts, sceneData, pass,
                 caught, revoked, isKeySelected, uploading, generationDelay,
                 countdown, generationStatusMessage, toWorker, toHost,
                 isAborted, jobs, requests, nextJob, staleBelow>>

\* handleReset (VideoResult's button)
handleReset ==
  /\ isKeySelected /\ ShowsResult
  /\ resets < MaxResets
  /\ resets' = resets + 1
  /\ status' = "IDLE" /\ mode' = "SELECT" /\ step' = "LYRICS"
  /\ generatedVideoUrl' = FALSE
  /\ scenes' = <<>>
  /\ isGeneratingClips' = FALSE /\ isGeneratingPrompts' = FALSE
  /\ revoked' = revoked \cup VideoRefs(scenes)
  /\ resetBelow' = nextJob
  /\ UNCHANGED <<lyrics, parsed, prompts, availablePrompts, sceneData, pass,
                 caught, isKeySelected, uploading, generationDelay, countdown,
                 generationStatusMessage, toWorker, toHost, isAborted,
                 jobs, requests, nextJob, staleBelow>>

\* ---------------------------------------------------------------- worker
\* What one run-to-await block of a handler yields: the job's next state,
\* the notifications it posts (in order) and the remote requests it issues.
Block(job, out, req) == [job |-> job, out |-> out, req |-> req]

Req(j, s, k) == [job |-> j, scene |-> s, kind |-> k]

\* a handler that returned keeps nothing but its kind
Finished(job) == [NoJob EXCEPT !.kind = job.kind, !.pc = "done"]

\* the 'stopped' notification; it has no payload, the model attaches the
\* run's batch and where the stop reached it
Stopped(j, job) == Msg(j, "stopped", 0, <<job.stopAt, job.batch>>)

\* faulty variant: the loop walks the batch from its end
LoopHeadReversed(j, job, k, ab) ==
  LET r == Len(job.batch) + 1 - k
  IN IF ab
     THEN [job |-> Finished(job), out |-> <<Stopped(j, job)>>, req |-> {}]
     ELSE [job |-> [job EXCEPT !.idx = k, !.pc = "image", !.image = 0],
           out |-> <<Msg(j, "progress", job.batch[r], k),
                     Msg(j, "image_generating", job.batch[r], 0)>>,
           req |-> {Req(j, job.batch[r], "image")}]

\* faulty variant: the loop requests the image of the following scene ahead of time
LoopHeadPrefetch(j, job, k, ab) ==
  IF ab
  THEN Block(Finished(job), <<Stopped(j, job)>>, {})
  ELSE Block([job EXCEPT !.idx = k, !.pc = "image", !.image = 0],
             <<Msg(j, "progress", job.batch[k], k),
               Msg(j, "image_generating", job.batch[k], 0)>>,
             {Req(j, job.batch[i], "image") :
                i \in {k, k + 1} \cap (1..Len(job.batch))})

\* faulty variant: the progress message comes after image_generating
LoopHeadLateProgress(j, job, k, ab) ==
  IF ab
  THEN Block(Finished(job), <<Stopped(j, job)>>, {})
  ELSE Block([job EXCEPT !.idx = k, !.pc = "image", !.image = 0],
             <<Msg(j, "image_generating", job.batch[k], 0),
               Msg(j, "progress", job.batch[k], k)>>,
             {Req(j, job.batch[k], "image")})

\* top of the for-loop body for the k-th scene of the batch (App.tsx:143-153)
LoopHead(j, job, k, ab) ==
  IF ab
  THEN Block(Finished(job), <<Stopped(j, job)>>, {})
  ELSE Block([job EXCEPT !.idx = k, !.pc = "image", !.image = 0],
             <<Msg(j, "progress", job.batch[k], k),
               Msg(j, "image_generating", job.batch[k], 0)>>,
             {Req(j, job.batch[k], "image")})

\* end of one loop iteration: the next scene, or the code after the loop
\* (App.tsx:185-187)
LoopNext(j, job, ab) ==
  IF job.idx < Len(job.batch)
  THEN LoopHead(j, job, job.idx + 1, ab)
  ELSE Block(Finished(job),
             IF ab THEN <<>> ELSE <<Msg(j, "all_complete", 0, 0)>>, {})

\* faulty variant: the delay is taken after the last scene too
AfterSceneEveryScene(j, job, ab) ==
  IF ~ab
  THEN LET delayInSeconds == job.delay * SecondsPerMinute
           wait == Msg(j, "progress", 0, 0)
       IN IF delayInSeconds > 0
          THEN Block([job EXCEPT !.pc = "delay", !.i = delayInSeconds],
                     <<wait, Msg(j, "countdown", 0, delayInSeconds)>>, {})
          ELSE LET r == LoopNext(j, job, ab)
               IN Block(r.job, <<wait, Msg(j, "countdown", 0, 0)>> \o r.out,
                        r.req)
  ELSE LoopNext(j, job, ab)

\* the inter-scene delay, entered after completed / error (App.tsx:168-182)
AfterScene(j, job, ab) ==
  IF job.idx < Len(job.batch) /\ ~ab
  THEN LET delayInSeconds == job.delay * SecondsPerMinute
           wait == Msg(j, "progress", 0, 0)
       IN IF delayInSeconds > 0
          THEN Block([job EXCEPT !.pc = "delay", !.i = delayInSeconds],
                     <<wait, Msg(j, "countdown", 0, delayInSeconds)>>, {})
          ELSE LET r == LoopNext(j, job, ab)
               IN Block(r.job, <<wait, Msg(j, "countdown", 0, 0)>> \o r.out,
                        r.req)
  ELSE LoopNext(j, job, ab)

\* faulty variant: a failed call ends the whole handler
CatchAborting(j, job, kind, ab) ==
  Block(Finished(job), <<Msg(j, "error", job.batch[job.idx], kind)>>, {})

\* the catch blocks (App.tsx:133-136 and 163-166)
Catch(j, job, kind, ab) ==
  LET err == Msg(j, "error", job.batch[job.idx], kind)
  IN IF job.kind = "one"
     THEN Block(Finished(job), <<err>>, {})
     ELSE LET r == AfterScene(j, job, ab)
          IN Block(r.job, <<err>> \o r.out, r.req)

\* faulty variant: generate-one looks at the abort flag too
ImageDoneGated(j, job, ab) ==
  IF ab
  THEN Block(Finished(job), <<Stopped(j, job)>>, {})
  ELSE Block([job EXCEPT !.pc = "video_start", !.image = j],
             <<Msg(j, "video_generating", job.batch[job.idx], j)>>,
             {Req(j, job.batch[job.idx], "video")})

\* generateImage resolved (App.tsx:127-130 and 153-158)
ImageDone(j, job, ab) ==
  IF job.kind = "all" /\ ab
  THEN Block(Finished(job), <<Stopped(j, job)>>, {})
  ELSE Block([job EXCEPT !.pc = "video_start", !.image = j],
             <<Msg(j, "video_generating", job.batch[job.idx], j)>>,
             {Req(j, job.batch[job.idx], "video")})

\* faulty variant: generate-one looks at the abort flag after the video call
VideoDoneGated(j, job, ab) ==
  IF ab
  THEN Block(Finished(job), <<Stopped(j, job)>>, {})
  ELSE LET done == Msg(j, "completed", job.batch[job.idx], j)
       IN IF job.kind = "one"
          THEN Block(Finished(job), <<done>>, {})
          ELSE LET r == AfterScene(j, job, ab)
               IN Block(r.job, <<done>> \o r.out, r.req)

\* generateAnimationVideo resolved (App.tsx:130-132 and 158-162)
VideoDone(j, job, ab) ==
  IF job.kind = "all" /\ ab
  THEN Block(Finished(job), <<Stopped(j, job)>>, {})
  ELSE LET done == Msg(j, "completed", job.batch[job.idx], j)
       IN IF job.kind = "one"
          THEN Block(Finished(job), <<done>>, {})
          ELSE LET r == AfterScene(j, job, ab)
               IN Block(r.job, <<done>> \o r.out, r.req)

\* pollForVideoResult on an operation `op` just obtained (App.tsx:36-55):
\* not done -> wait 10 s and re-query; done -> error, missing link, or fetch
\* of the payload.  An operation is what the poller reads of it: done,
\* error, and response...video.uri; one that is not done has neither yet
PendingOp == [done |-> FALSE, error |-> FALSE, uri |-> FALSE]
OpStates == {PendingOp} \cup [done : {TRUE}, error : BOOLEAN, uri : BOOLEAN]
OkOp == [done |-> TRUE, error |-> FALSE, uri |-> TRUE]

\* faulty variant: the poll loop looks at the abort flag
pollForVideoResultCancellable(j, job, op, kind, ab) ==
  IF ab /\ job.kind = "all"
  THEN Block(Finished(job), <<Stopped(j, job)>>, {})
  ELSE IF ~op.done THEN Block([job EXCEPT !.pc = "polling"], <<>>, {})
  ELSE IF op.error THEN Catch(j, job, kind, ab)
  ELSE IF ~op.uri THEN Catch(j, job, "other", ab)
  ELSE Block([job EXCEPT !.pc = "fetch"], <<>>, {})

\* faulty variant: the poller gives up when the operation is still pending
pollForVideoResultTimingOut(j, job, op, kind, ab) ==
  IF ~op.done THEN Catch(j, job, "other", ab)
  ELSE IF op.error THEN Catch(j, job, kind, ab)
  ELSE IF ~op.uri THEN Catch(j, job, "other", ab)
  ELSE Block([job EXCEPT !.pc = "fetch"], <<>>, {})

\* faulty variant: the download link is looked for before the error
pollForVideoResultLinkFirst(j, job, op, kind, ab) ==
  IF ~op.done THEN Block([job EXCEPT !.pc = "polling"], <<>>, {})
  ELSE IF ~op.uri THEN Catch(j, job, "other", ab)
  ELSE IF op.error THEN Catch(j, job, kind, ab)
  ELSE Block([job EXCEPT !.pc = "fetch"], <<>>, {})

pollForVideoResult(j, job, op, kind, ab) ==
  IF ~op.done THEN Block([job EXCEPT !.pc = "polling"], <<>>, {})
  ELSE IF op.error THEN Catch(j, job, kind, ab)
  ELSE IF ~op.uri THEN Catch(j, job, "other", ab)
  ELSE Block([job EXCEPT !.pc = "fetch"], <<>>, {})

Active(j) == jobs[j].kind # "none" /\ jobs[j].pc # "done"
ActiveRuns == {j \in JobIds : jobs[j].kind = "all" /\ Active(j)}

\* where a stop message reaches a run: in the delay after its idx-th scene
\* (and whether that scene completed), between two polls of the video
\* operation, or during another remote call
StopPoint(job) == CASE job.pc = "delay"   ->
                         <<"delay", job.idx,
                           \E p \in 1..Len(job.sent) :
                             /\ job.sent[p].type = "completed"
                             /\ job.sent[p].scene = job.batch[job.idx]>>
                    [] job.pc = "polling" -> <<"poll">>
                    [] OTHER              -> <<"call">>

\* the generate-all runs that were active when a stop message was received
StopSeen == {j \in JobIds : jobs[j].stopAt # <<>>}

\* what `sent` keeps of a notification
Sent(m) == [type |-> m.type, scene |-> m.scene,
            arg |-> IF m.type = "countdown" THEN m.arg ELSE 0]

\* the worker's state after job j ran the block b
Commit(j, b, drop) ==
  /\ jobs' = [jobs EXCEPT ![j] =
               IF b.job.pc = "done" THEN b.job
               ELSE [b.job EXCEPT !.sent =
                       @ \o [k \in 1..Len(b.out) |-> Sent(b.out[k])]]]
  /\ toHost' = toHost \o b.out
  /\ requests' = (requests \ drop) \cup b.req

\* faulty variant: a generate-all run starts with the abort flag as it finds it
AbortAtStartKept(ab) == ab

\* the abort flag a generate-all run starts with (`isAborted = false`,
\* App.tsx:140), ab being the flag it finds
AbortAtStart(ab) == FALSE

\* self.onmessage for the next message of the host (App.tsx:115-143)
WorkerReceive ==
  /\ Len(toWorker) > 0
  /\ Len(toHost) < MaxPending
  /\ LET m == Head(toWorker)
         job == [NoJob EXCEPT !.kind = IF m.type = "generate-one"
                                        THEN "one" ELSE "all",
                              !.batch = m.scenes, !.from = m.from,
                              !.delay = m.delay,
                              !.idx = 1]
     IN /\ toWorker' = Tail(toWorker)
        /\ CASE m.type = "stop" ->
                  /\ isAborted' = TRUE
                  /\ jobs' = [j \in JobIds |->
                               IF j \in ActiveRuns /\ jobs[j].stopAt = <<>>
                               THEN [jobs[j] EXCEPT !.stopAt = StopPoint(jobs[j])]
                               ELSE jobs[j]]
                  /\ UNCHANGED <<toHost, requests>>
             [] m.type = "generate-one" ->
                  /\ Commit(m.job,
                            Block([job EXCEPT !.pc = "image"],
                                  <<Msg(m.job, "image_generating",
                                        m.scenes[1], 0)>>,
                                  {Req(m.job, m.scenes[1], "image")}), {})
                  /\ UNCHANGED isAborted
             [] OTHER ->
                  /\ isAborted' = AbortAtStart(isAborted)
                  /\ Commit(m.job,
                            LoopHead(m.job, job, 1, AbortAtStart(isAborted)),
                            {})
  /\ UNCHANGED <<passVars, mode, status, step, isKeySelected, generatedVideoUrl,
                 uploading, scenes, isGeneratingPrompts, isGeneratingClips,
                 generationDelay, countdown, generationStatusMessage,
                 nextJob, resets, staleBelow>>

\* the host falls at most MaxPending notifications (plus one block's worth)
\* behind the worker
WorkerFrame ==
  /\ Len(toHost) < MaxPending
  /\ UNCHANGED <<passVars, mode, status, step, isKeySelected, generatedVideoUrl,
                 uploading, scenes, isGeneratingPrompts, isGeneratingClips,
                 generationDelay, countdown, generationStatusMessage,
                 toWorker, isAborted, nextJob, resets, staleBelow>>

OwnReqs(j) == {r \in requests : r.job = j}

\* the image service answers job j's request
ImageReturns(j, ok, kind) ==
  /\ jobs[j].pc = "image"
  /\ Commit(j, IF ok THEN ImageDone(j, jobs[j], isAborted)
               ELSE Catch(j, jobs[j], kind, isAborted),
            {r \in OwnReqs(j) : r.kind = "image"})
  /\ WorkerFrame

\* ai.models.generateVideos answers: an operation handle in state op, or a
\* failure
VideoStartReturns(j, ok, op, kind) ==
  /\ jobs[j].pc = "video_start"
  /\ LET b == IF ok THEN pollForVideoResult(j, jobs[j], op, kind, isAborted)
              ELSE Catch(j, jobs[j], kind, isAborted)
     IN Commit(j, b, IF b.job.pc \in {"polling", "fetch"} THEN {}
                     ELSE OwnReqs(j))
  /\ WorkerFrame

\* one iteration of the poll loop: the 10 s timer fired and
\* getVideosOperation answered (nothing is posted or tested in between)
PollReturns(j, ok, op, kind) ==
  /\ jobs[j].pc = "polling"
  /\ LET b == IF ok THEN pollForVideoResult(j, jobs[j], op, kind, isAborted)
              ELSE Catch(j, jobs[j], kind, isAborted)
     IN Commit(j, b, IF b.job.pc \in {"polling", "fetch"} THEN {}
                     ELSE OwnReqs(j))
  /\ WorkerFrame

\* the fetch of the video payload answers
FetchReturns(j, ok) ==
  /\ jobs[j].pc = "fetch"
  /\ Commit(j, IF ok THEN VideoDone(j, jobs[j], isAborted)
               ELSE Catch(j, jobs[j], "other", isAborted),
            OwnReqs(j))
  /\ WorkerFrame

\* one second of the inter-scene delay elapsed (App.tsx:172-181)
DelayTick(j) ==
  /\ jobs[j].pc = "delay"
  /\ LET job == [jobs[j] EXCEPT !.i = jobs[j].i - 1]
     IN Commit(j,
          IF isAborted
          THEN Block(Finished(job), <<Stopped(j, job)>>, {})
          ELSE IF job.i > 0
               THEN Block(job, <<Msg(j, "countdown", 0, job.i)>>, {})
               ELSE LET r == LoopNext(j, job, isAborted)
                    IN Block(r.job, <<Msg(j, "countdown", 0, 0)>> \o r.out,
                             r.req),
          {})
  /\ WorkerFrame

\* ------------------------------------------------- host: worker.onmessage
\* faulty variant: the cleanup forgets the scenes in their video stage
ResetGeneratingImageOnly(scn) ==
  [k \in 1..Len(scn) |->
     IF scn[k].status = "image_generating"
     THEN [scn[k] EXCEPT !.status = "idle"] ELSE scn[k]]

\* the 'stopped' cleanup (App.tsx:335-339)
ResetGenerating(scn) ==
  [k \in 1..Len(scn) |->
     IF scn[k].status \in {"image_generating", "video_generating"}
     THEN [scn[k] EXCEPT !.status = "idle"] ELSE scn[k]]

ApplyScenes(m) ==
  CASE m.type = "image_generating" ->
         updateScene(scenes, m.scene, [status |-> "image_generating"])
    [] m.type = "video_generating" ->
         updateScene(scenes, m.scene, [generatedImageBase64 |-> m.arg,
                                       status |-> "video_generating"])
    [] m.type = "completed" ->
         updateScene(scenes, m.scene, [generatedVideoUrl |-> m.arg,
                                       status |-> "completed"])
    [] m.type = "error" ->
         updateScene(scenes, m.scene, [status |-> "error",
                                       errorMessage |-> m.arg])
    [] m.type = "stopped" -> ResetGenerating(scenes)
    [] OTHER -> scenes

\* worker.onmessage (App.tsx:298-342) applied to the next notification
ApplyNotification ==
  /\ Len(toHost) > 0
  /\ LET m == Head(toHost)
     IN /\ toHost' = Tail(toHost)
        /\ scenes' = ApplyScenes(m)
        /\ isKeySelected' = IF m.type = "error" /\ m.arg = "credential"
                            THEN FALSE ELSE isKeySelected
        /\ isGeneratingClips' = IF m.type \in {"all_complete", "stopped"}
                                THEN FALSE ELSE isGeneratingClips
        /\ countdown' = CASE m.type = "countdown" -> m.arg
                          [] m.type \in {"all_complete", "stopped"} -> 0
                          [] OTHER -> countdown
        /\ generationStatusMessage' =
             CASE m.type = "progress" -> <<"progress", m.scene>>
               [] m.type = "countdown" /\ m.arg > 0 -> <<"progress", 0>>
               [] m.type = "all_complete" -> <<"all_complete">>
               [] m.type = "stopped" -> <<"stopped">>
               [] OTHER -> generationStatusMessage
        /\ status' = SuccessEffect(status, scenes', isGeneratingClips')
        /\ staleBelow' = IF m.type = "stopped" THEN nextJob ELSE staleBelow
  /\ UNCHANGED <<passVars, mode, step, generatedVideoUrl, uploading,
                 isGeneratingPrompts, generationDelay, toWorker,
                 isAborted, jobs, requests, nextJob, resets>>

\* ---------------------------------------------------------------- matcher
\* handleGenerateScenePrompts (App.tsx:424-465) from the point where the
\* sections (`parsed`) and the prompt candidates (`prompts`) are at hand.
\* A string is the sequence of its characters.  Prompt texts are modelled
\* by the position the candidate has in `prompts` (0 = the empty string).

\* String.prototype.toLowerCase, letter by letter
UpperCase ==
  <<"A", "B", "C", "D", "E", "F", "G", "H", "I", "J", "K", "L", "M",
    "N", "O", "P", "Q", "R", "S", "T", "U", "V", "W", "X", "Y", "Z">>
LowerCase ==
  <<"a", "b", "c", "d", "e", "f", "g", "h", "i", "j", "k", "l", "m",
    "n", "o", "p", "q", "r", "s", "t", "u", "v", "w", "x", "y", "z">>
Lower(c) ==
  IF \E i \in 1..Len(UpperCase) : UpperCase[i] = c
  THEN LowerCase[CHOOSE i \in 1..Len(UpperCase) : UpperCase[i] = c]
  ELSE c
toLowerCase(str) == [i \in 1..Len(str) |-> Lower(str[i])]

\* .replace(/[\[\]():]/g, '')
Stripped == {"[", "]", "(", ")", ":"}
stripBrackets(str) == SelectSeq(str, LAMBDA c : c \notin Stripped)

\* String.prototype.trim
WhiteSpace == {" ", "\n", "\r"}
RECURSIVE trimStart(_)
trimStart(str) ==
  IF str # <<>> /\ Head(str) \in WhiteSpace THEN trimStart(Tail(str)) ELSE str

RECURSIVE trimEnd(_)
trimEnd(str) ==
  IF str # <<>> /\ str[Len(str)] \in WhiteSpace
  THEN trimEnd(SubSeq(str, 1, Len(str) - 1)) ELSE str

\* faulty variant: white space at the ends is kept
trimNothing(str) == str

trim(str) == trimEnd(trimStart(str))

\* String.prototype.includes
includes(str, sub) ==
  \E i \in 1..(Len(str) - Len(sub) + 1) :
    \A k \in 1..Len(sub) : str[i + k - 1] = sub[k]

\* cleanedHeader / cleanedApiSection (App.tsx:435, 439)
cleaned(str) == trim(stripBrackets(toLowerCase(str)))

\* the predicate handed to findIndex (App.tsx:438-442)
Matches(cleanedHeader, p) ==
  LET cleanedApiSection == cleaned(p.section)
  IN \/ cleanedHeader = cleanedApiSection
     \/ includes(cleanedHeader, cleanedApiSection)
     \/ includes(cleanedApiSection, cleanedHeader)

\* faulty variant: sections and candidates are paired by position
findIndexPositional(pool, cleanedHeader) ==
  IF pool = <<>> THEN 0 ELSE 1

\* availablePrompts.findIndex(...): the first index whose candidate passes
\* the predicate, 0 when there is none (the code's -1)
findIndex(pool, cleanedHeader) ==
  IF \E i \in 1..Len(pool) : Matches(cleanedHeader, pool[i])
  THEN CHOOSE i \in 1..Len(pool) :
         /\ Matches(cleanedHeader, pool[i])
         /\ \A k \in 1..(i - 1) : ~Matches(cleanedHeader, pool[k])
  ELSE 0

\* faulty variant: the candidate taken stays in the pool
spliceKeep(pool, i) == pool

\* availablePrompts.splice(i, 1): the pool without its i-th entry
splice(pool, i) ==
  [k \in 1..(Len(pool) - 1) |-> IF k < i THEN pool[k] ELSE pool[k + 1]]

\* the undefined promptData of a miss
NoPrompt == [section |-> <<>>, imagePrompt |-> 0, animationPrompt |-> 0]

\* faulty variant: the scene takes its header from the candidate
MakeSceneFromPrompt(section, index, promptData) ==
  [id |-> index,
   sectionHeader |-> promptData.section,
   sectionContent |-> section.content,
   imagePrompt |-> promptData.imagePrompt,
   animationPrompt |-> promptData.animationPrompt,
   status |-> "idle"]

\* the record the map callback returns (App.tsx:450-457)
MakeScene(section, index, promptData) ==
  [id |-> index,
   sectionHeader |-> section.header,
   sectionContent |-> section.content,
   imagePrompt |-> promptData.imagePrompt,
   animationPrompt |-> promptData.animationPrompt,
   status |-> "idle"]

\* what a pass leaves of the pipeline alone
PassFrame ==
  UNCHANGED <<mode, status, step, isKeySelected, generatedVideoUrl,
              uploading, isGeneratingClips, generationDelay, countdown,
              generationStatusMessage, toWorker, toHost, isAborted, jobs,
              requests, nextJob, resets, staleBelow, lyrics, parsed, prompts,
              caught, revoked, resetBelow>>

\* one call of the map callback (App.tsx:434-458), for the next section
MatchSection ==
  /\ pass = "matching"
  /\ Len(sceneData) < Len(parsed)
  /\ LET index == Len(sceneData) + 1
         section == parsed[index]
         cleanedHeader == cleaned(section.header)
         bestMatchIndex == findIndex(availablePrompts, cleanedHeader)
     IN IF bestMatchIndex # 0
        THEN /\ sceneData' = Append(sceneData,
                               MakeScene(section, index,
                                         availablePrompts[bestMatchIndex]))
             /\ availablePrompts' = splice(availablePrompts, bestMatchIndex)
        ELSE /\ sceneData' = Append(sceneData,
                                    MakeScene(section, index, NoPrompt))
             /\ availablePrompts' = availablePrompts
  /\ UNCHANGED <<pass, scenes, isGeneratingPrompts>>
  /\ PassFrame

\* setScenes(sceneData) and the finally block (App.tsx:459-464)
MatchEnd ==
  /\ pass = "matching"
  /\ Len(sceneData) = Len(parsed)
  /\ pass' = "done"
  /\ scenes' = NewScenes(Len(sceneData))
  /\ isGeneratingPrompts' = FALSE
  /\ UNCHANGED <<sceneData, availablePrompts>>
  /\ PassFrame

\* -------------------------------------------------------------- segmenter
\* parseLyrics.  App.tsx imports it from ./utils (line 6) and declares a
\* second parseLyrics of its own (lines 939-975); which of the two the call
\* at App.tsx:429 reaches is left to the build, so both are modelled.

Digits == {"0", "1", "2", "3", "4", "5", "6", "7", "8", "9"}
DigitSeq == <<"0", "1", "2", "3", "4", "5", "6", "7", "8", "9">>
\* \w of the regular expressions
WordChars ==
  {UpperCase[i] : i \in 1..Len(UpperCase)} \cup
  {LowerCase[i] : i \in 1..Len(LowerCase)} \cup Digits \cup {"_"}

\* the decimal digits of index + 1 in `Scene ${index + 1}`
RECURSIVE decimal(_)
decimal(n) ==
  IF n < 10 THEN <<DigitSeq[n + 1]>>
  ELSE decimal(n \div 10) \o <<DigitSeq[(n % 10) + 1]>>

\* .replace(/\\n/g, '\n'): a backslash followed by n becomes a line feed
RECURSIVE unescapeNewlines(_)
unescapeNewlines(str) ==
  IF str = <<>> THEN <<>>
  ELSE IF Len(str) >= 2 /\ str[1] = "\\" /\ str[2] = "n"
  THEN <<"\n">> \o unescapeNewlines(SubSeq(str, 3, Len(str)))
  ELSE <<Head(str)>> \o unescapeNewlines(Tail(str))

\* .replace(/\r\n?/g, '\n') of utils.ts
RECURSIVE normalizeCR(_)
normalizeCR(str) ==
  IF str = <<>> THEN <<>>
  ELSE IF str[1] = "\r"
  THEN IF Len(str) >= 2 /\ str[2] = "\n"
       THEN <<"\n">> \o normalizeCR(SubSeq(str, 3, Len(str)))
       ELSE <<"\n">> \o normalizeCR(Tail(str))
  ELSE <<Head(str)>> \o normalizeCR(Tail(str))

\* .replace(/\r\n/g, '\n') of App.tsx
RECURSIVE replaceCRLF(_)
replaceCRLF(str) ==
  IF str = <<>> THEN <<>>
  ELSE IF Len(str) >= 2 /\ str[1] = "\r" /\ str[2] = "\n"
  THEN <<"\n">> \o replaceCRLF(SubSeq(str, 3, Len(str)))
  ELSE <<Head(str)>> \o replaceCRLF(Tail(str))

\* where a match of /\n\s*\n/ that starts at i ends: the last line feed of
\* the white space that follows str[i]; 0 when there is none
separatorEnd(str, i) ==
  LET run == {e \in (i + 1)..Len(str) :
                \A k \in (i + 1)..e : str[k] \in WhiteSpace}
      feeds == {k \in run : str[k] = "\n"}
  IN IF str[i] = "\n" /\ feeds # {}
     THEN CHOOSE k \in feeds : \A m \in feeds : m <= k
     ELSE 0

\* .split(/\n\s*\n/)
RECURSIVE splitBlocks(_)
splitBlocks(str) ==
  LET starts == {i \in 1..Len(str) : separatorEnd(str, i) # 0}
  IN IF starts = {} THEN <<str>>
     ELSE LET i == CHOOSE k \in starts : \A m \in starts : k <= m
          IN <<SubSeq(str, 1, i - 1)>> \o
             splitBlocks(SubSeq(str, separatorEnd(str, i) + 1, Len(str)))

\* .split('\n')
RECURSIVE splitLines(_)
splitLines(str) ==
  LET feeds == {i \in 1..Len(str) : str[i] = "\n"}
  IN IF feeds = {} THEN <<str>>
     ELSE LET i == CHOOSE k \in feeds : \A m \in feeds : k <= m
          IN <<SubSeq(str, 1, i - 1)>> \o
             splitLines(SubSeq(str, i + 1, Len(str)))

\* .join('\n')
RECURSIVE join(_)
join(lines) ==
  IF lines = <<>> THEN <<>>
  ELSE IF Len(lines) = 1 THEN lines[1]
  ELSE lines[1] \o <<"\n">> \o join(Tail(lines))

\* the song-structure keywords, in lower case (the patterns carry /i)
kwVerse == <<"v", "e", "r", "s", "e">>
kwChorus == <<"c", "h", "o", "r", "u", "s">>
kwBridge == <<"b", "r", "i", "d", "g", "e">>
kwIntro == <<"i", "n", "t", "r", "o">>
kwOutro == <<"o", "u", "t", "r", "o">>
kwPreChorus == <<"p", "r", "e", "-">> \o kwChorus
kwPostChorus == <<"p", "o", "s", "t", "-">> \o kwChorus
kwHook == <<"h", "o", "o", "k">>
kwInterlude == <<"i", "n", "t", "e", "r", "l", "u", "d", "e">>
kwSolo == <<"s", "o", "l", "o">>
kwBuild == <<"b", "u", "i", "l", "d">>
kwRefrain == <<"r", "e", "f", "r", "a", "i", "n">>

startsWith(str, prefix) ==
  /\ Len(str) >= Len(prefix)
  /\ SubSeq(toLowerCase(str), 1, Len(prefix)) = prefix

NoMatch == [found |-> FALSE, group |-> <<>>, length |-> 0]

\* \[([^\]]+)\] and \(([^)]+)\) at the start of the line: the group and the
\* length of the match
enclosed(str, open, close) ==
  LET ends == {k \in 2..Len(str) : str[k] = close}
  IN IF str # <<>> /\ str[1] = open /\ ends # {}
     THEN LET k == CHOOSE e \in ends : \A m \in ends : e <= m
          IN IF k >= 3
             THEN [found |-> TRUE, group |-> SubSeq(str, 2, k - 1),
                   length |-> k]
             ELSE NoMatch
     ELSE NoMatch

\* (keyword)\b:? at the start of the line, the keyword ending at e
keywordEnd(str, e) ==
  IF e < Len(str) /\ str[e + 1] \in WordChars THEN NoMatch
  ELSE [found |-> TRUE, group |-> SubSeq(str, 1, e),
        length |-> IF e < Len(str) /\ str[e + 1] = ":" THEN e + 1 ELSE e]

\* the vocabulary of utils.ts:19 but `Verse \d+`
utilsKeywords ==
  {kwPreChorus, kwChorus, kwBridge, kwIntro, kwOutro, kwInterlude, kwHook}

\* firstLine.match(headerRegex) of utils.ts:19, 24
utilsHeaderMatch(firstLine) ==
  LET bracket == enclosed(firstLine, "[", "]")
      paren == enclosed(firstLine, "(", ")")
      numbered == startsWith(firstLine, kwVerse \o <<" ">>)
      digits == {e \in (Len(kwVerse) + 2)..Len(firstLine) :
                   \A k \in (Len(kwVerse) + 2)..e : firstLine[k] \in Digits}
      words == {kw \in utilsKeywords : startsWith(firstLine, kw)}
  IN IF bracket.found THEN bracket
     ELSE IF paren.found THEN paren
     ELSE IF numbered /\ digits # {}
     THEN keywordEnd(firstLine, CHOOSE e \in digits : \A m \in digits : m <= e)
     ELSE IF words # {}
     THEN keywordEnd(firstLine, Len(CHOOSE kw \in words : TRUE))
     ELSE NoMatch

\* filter(Boolean).join('\n') of utils.ts:36
joinFilled(parts) == join(SelectSeq(parts, LAMBDA part : part # <<>>))

\* the body of blocks.forEach (utils.ts:21-46): header and content of the
\* block at `index` (counted from 0)
utilsSection(block, index) ==
  LET lines == splitLines(trim(block))
      firstLine == trim(lines[1])
      match == utilsHeaderMatch(firstLine)
      restOfLines == join(Tail(lines))
  IN IF match.found
     THEN LET contentFromFirstLine ==
                trim(SubSeq(firstLine, match.length + 1, Len(firstLine)))
              joined == trim(joinFilled(<<contentFromFirstLine, restOfLines>>))
          IN [header |-> trim(match.group),
              content |-> IF joined = <<>> /\ Len(lines) > 1
                          THEN trim(restOfLines) ELSE joined]
     ELSE [header |-> <<"S", "c", "e", "n", "e", " ">> \o decimal(index + 1),
           content |-> trim(block)]

\* parseLyrics of utils.ts:1-55
parseLyrics(text) ==
  IF trim(text) = <<>> THEN <<>>
  ELSE
    LET cleanedText == trim(normalizeCR(unescapeNewlines(text)))
        blocks == SelectSeq(splitBlocks(cleanedText),
                            LAMBDA block : trim(block) # <<>>)
        all == [i \in 1..Len(blocks) |-> utilsSection(blocks[i], i - 1)]
    IN IF blocks = <<>>
       THEN IF cleanedText # <<>>
            THEN <<[header |-> <<"S", "c", "e", "n", "e", " ", "1">>,
                    content |-> cleanedText]>>
            ELSE <<>>
       ELSE SelectSeq(all, LAMBDA section : section.content # <<>>)

\* `firstLine.length < 40` of App.tsx:962
HeaderLimit == 40

\* the vocabulary of App.tsx:950
appKeywords ==
  {kwVerse, kwChorus, kwBridge, kwIntro, kwOutro, kwPreChorus, kwHook,
   kwInterlude, kwSolo, kwBuild, kwPostChorus, kwRefrain}

\* the whole line is [...] or (...), nothing after the closing bracket
enclosedLine(str, open, close) ==
  /\ Len(str) >= 3
  /\ str[1] = open
  /\ str[Len(str)] = close
  /\ \A k \in 2..(Len(str) - 1) : str[k] # close

\* firstLine.match(headerRegex) of App.tsx:950, 959: the pattern is anchored
\* at both ends, so its group is the line
appHeaderMatch(firstLine) ==
  LET tailOK(kw) ==
        \A k \in (Len(kw) + 1)..Len(firstLine) :
          firstLine[k] \in WhiteSpace \cup Digits \cup {":", "."}
  IN IF \/ enclosedLine(firstLine, "[", "]")
        \/ enclosedLine(firstLine, "(", ")")
        \/ \E kw \in appKeywords : startsWith(firstLine, kw) /\ tailOK(kw)
     THEN [found |-> TRUE, group |-> firstLine, length |-> Len(firstLine)]
     ELSE NoMatch

\* .replace(/[:\s]+$/, '')
RECURSIVE stripTrailing(_)
stripTrailing(str) ==
  IF str # <<>> /\ str[Len(str)] \in WhiteSpace \cup {":"}
  THEN stripTrailing(SubSeq(str, 1, Len(str) - 1)) ELSE str

\* faulty variant: the content is put in lower case
appSectionLowered(trimmedBlock) ==
  LET lines == splitLines(trimmedBlock)
      firstLine == trim(lines[1])
      match == appHeaderMatch(firstLine)
  IN IF match.found /\ Len(firstLine) < HeaderLimit
     THEN [header |-> stripTrailing(trim(match.group)),
           content |-> toLowerCase(trim(join(Tail(lines))))]
     ELSE [header |-> <<>>, content |-> trimmedBlock]

\* the body of the for loop (App.tsx:952-972) for a block that is not blank
appSection(trimmedBlock) ==
  LET lines == splitLines(trimmedBlock)
      firstLine == trim(lines[1])
      match == appHeaderMatch(firstLine)
  IN IF match.found /\ Len(firstLine) < HeaderLimit
     THEN [header |-> stripTrailing(trim(match.group)),
           content |-> trim(join(Tail(lines)))]
     ELSE [header |-> <<>>, content |-> trimmedBlock]

\* parseLyrics of App.tsx:939-975
parseLyricsApp(text) ==
  IF trim(text) = <<>> THEN <<>>
  ELSE
    LET blocks == splitBlocks(replaceCRLF(trim(text)))
        kept == SelectSeq(blocks, LAMBDA block : trim(block) # <<>>)
    IN [i \in 1..Len(kept) |-> appSection(trim(kept[i]))]

\* what the call of parseLyrics leaves alone
ParseFrame ==
  UNCHANGED <<mode, status, step, isKeySelected, generatedVideoUrl,
              uploading, scenes, isGeneratingPrompts, isGeneratingClips,
              generationDelay, countdown, generationStatusMessage, toWorker,
              toHost, isAborted, jobs, requests, nextJob, resets,
              staleBelow, lyrics, prompts, availablePrompts, sceneData,
              caught, revoked, resetBelow>>

\* `const parsed = parseLyrics(lyrics)` (App.tsx:429) bound to the import
ParseImported ==
  /\ pass = "parsing"
  /\ parsed' = parseLyrics(lyrics)
  /\ pass' = "parsed by utils"
  /\ ParseFrame

\* the same call bound to the declaration of App.tsx:939
ParseLocal ==
  /\ pass = "parsing"
  /\ parsed' = parseLyricsApp(lyrics)
  /\ pass' = "parsed by App"
  /\ ParseFrame

\* ------------------------------------------------- error classification
\* getFriendlyErrorMessage of the worker script (App.tsx:99-109) and the
\* test of the host on the message it gets (App.tsx:311-316).  A string
\* is the sequence of its characters, a character outside ASCII being
\* written by its code point ("u30ad" is the katakana KI).

\* the substrings looked for in the lower-cased message
n500 ==
  <<"5", "0", "0">>
nInternal ==
  <<"i", "n", "t", "e", "r", "n", "a", "l">>
nServerError ==
  <<"s", "e", "r", "v", "e", "r", " ", "e", "r", "r", "o", "r">>
nEntityNotFound ==
  <<"r", "e", "q", "u", "e", "s", "t", "e", "d", " ", "e", "n", "t", "i",
    "t", "y", " ", "w", "a", "s", " ", "n", "o", "t", " ", "f", "o", "u",
    "n", "d">>
nQuota ==
  <<"q", "u", "o", "t", "a">>
nResourceExhausted ==
  <<"r", "e", "s", "o", "u", "r", "c", "e", "_", "e", "x", "h", "a", "u",
    "s", "t", "e", "d">>
nApiKey ==
  <<"a", "p", "i", "_", "k", "e", "y">>
nInvalid ==
  <<"i", "n", "v", "a", "l", "i", "d">>
nNotFound ==
  <<"n", "o", "t", " ", "f", "o", "u", "n", "d">>
nFetch ==
  <<"f", "e", "t", "c", "h">>
nUnknownError ==
  <<"u", "n", "k", "n", "o", "w", "n", " ", "e", "r", "r", "o", "r">>

\* the texts returned
InternalText ==
  <<"u30d3", "u30c7", "u30aa", "u751f", "u6210", "u30b5", "u30fc", "u30d3",
    "u30b9", "u3067", "u4e00", "u6642", "u7684", "u306a", "u5185", "u90e8",
    "u30a8", "u30e9", "u30fc", "u304c", "u767a", "u751f", "u3057", "u307e",
    "u3057", "u305f", "u3002", "u3057", "u3070", "u3089", "u304f", "u3057",
    "u3066", "u304b", "u3089", "u3082", "u3046", "u4e00", "u5ea6", "u304a",
    "u8a66", "u3057", "u3044", "u305f", "u3060", "u304f", "u304b", "u3001",
    "u30d7", "u30ed", "u30f3", "u30d7", "u30c8", "u3092", "u5c11", "u3057",
    "u5909", "u66f4", "u3057", "u3066", "u307f", "u3066", "u304f", "u3060",
    "u3055", "u3044", "u3002">>
KeyNotFoundText ==
  <<"A", "P", "I", "u30ad", "u30fc", "u304c", "u898b", "u3064", "u304b",
    "u308a", "u307e", "u305b", "u3093", "u3067", "u3057", "u305f", "u3002",
    "u518d", "u5ea6", "A", "P", "I", "u30ad", "u30fc", "u3092", "u9078",
    "u629e", "u3057", "u3066", "u304f", "u3060", "u3055", "u3044", "u3002">>
QuotaText ==
  <<"A", "P", "I", "u306e", "u5229", "u7528", "u4e0a", "u9650", "u306b",
    "u9054", "u3057", "u305f", "u3088", "u3046", "u3067", "u3059", "u3002",
    "G", "o", "o", "g", "l", "e", " ", "A", "I", " ", "S", "t", "u", "d",
    "i", "o", "u3067", "u652f", "u6255", "u3044", "u8a2d", "u5b9a", "u3092",
    "u78ba", "u8a8d", "u3057", "u3066", "u304f", "u3060", "u3055", "u3044",
    "u3002">>
KeyInvalidText ==
  <<"A", "P", "I", "u30ad", "u30fc", "u304c", "u7121", "u52b9", "u3067",
    "u3059", "u3002", "u6709", "u52b9", "u306a", "A", "P", "I", "u30ad",
    "u30fc", "u304b", "u78ba", "u8a8d", "u3057", "u3066", "u304f", "u3060",
    "u3055", "u3044", "u3002">>
NetworkText ==
  <<"u30cd", "u30c3", "u30c8", "u30ef", "u30fc", "u30af", "u30a8", "u30e9",
    "u30fc", "u304c", "u767a", "u751f", "u3057", "u307e", "u3057", "u305f",
    "u3002", "u63a5", "u7d9a", "u3092", "u78ba", "u8a8d", "u3057", "u3066",
    "u304f", "u3060", "u3055", "u3044", "u3002">>
UnknownText ==
  <<"u4e0d", "u660e", "u306a", "u30a8", "u30e9", "u30fc", "u304c", "u767a",
    "u751f", "u3057", "u307e", "u3057", "u305f", "u3002">>

\* the substring the host looks for in the message of an error notification
KeyWord ==
  <<"A", "P", "I", "u30ad", "u30fc">>

\* the branch of getFriendlyErrorMessage a thrown value takes
Class(err) ==
  LET message == IF err.isError THEN toLowerCase(err.message)
                 ELSE nUnknownError
  IN IF \/ includes(message, n500) \/ includes(message, nInternal)
        \/ includes(message, nServerError)
     THEN "internal"
     ELSE IF includes(message, nEntityNotFound) THEN "key not found"
     ELSE IF includes(message, nQuota)
             \/ includes(message, nResourceExhausted)
     THEN "quota"
     ELSE IF /\ includes(message, nApiKey)
             /\ \/ includes(message, nInvalid)
                \/ includes(message, nNotFound)
     THEN "key invalid"
     ELSE IF includes(message, nFetch) THEN "network"
     ELSE "other"

getFriendlyErrorMessage(err) ==
  CASE Class(err) = "internal" -> InternalText
    [] Class(err) = "key not found" -> KeyNotFoundText
    [] Class(err) = "quota" -> QuotaText
    [] Class(err) = "key invalid" -> KeyInvalidText
    [] Class(err) = "network" -> NetworkText
    [] OTHER -> IF err.isError THEN err.message ELSE UnknownText

\* what the host makes of the message of an error notification:
\* `payload.message && payload.message.includes('APIキー')`
Seen(message) ==
  IF message # <<>> /\ includes(message, KeyWord) THEN "credential"
  ELSE "other"

\* messages of thrown Errors: up to two of these phrases
w500 ==
  <<"5", "0", "0">>
wInternal ==
  <<"I", "n", "t", "e", "r", "n", "a", "l">>
wServerError ==
  <<"s", "e", "r", "v", "e", "r", " ", "e", "r", "r", "o", "r">>
wEntityNotFound ==
  <<"R", "e", "q", "u", "e", "s", "t", "e", "d", " ", "e", "n", "t", "i",
    "t", "y", " ", "w", "a", "s", " ", "n", "o", "t", " ", "f", "o", "u",
    "n", "d">>
wQuota ==
  <<"q", "u", "o", "t", "a">>
wResourceExhausted ==
  <<"R", "E", "S", "O", "U", "R", "C", "E", "_", "E", "X", "H", "A", "U",
    "S", "T", "E", "D">>
wApiKey ==
  <<"A", "P", "I", "_", "K", "E", "Y">>
wInvalid ==
  <<"i", "n", "v", "a", "l", "i", "d">>
wNotFound ==
  <<"n", "o", "t", " ", "f", "o", "u", "n", "d">>
wFetch ==
  <<"F", "a", "i", "l", "e", "d", " ", "t", "o", " ", "f", "e", "t", "c",
    "h">>
wKeyWord ==
  <<"A", "P", "I", "u30ad", "u30fc">>
wSafety ==
  <<"s", "a", "f", "e", "t", "y">>
ErrorWords ==
  {w500, wInternal, wServerError, wEntityNotFound, wQuota, wResourceExhausted,
   wApiKey, wInvalid, wNotFound, wFetch, wKeyWord, wSafety}
ErrorTexts ==
  {<<>>} \cup ErrorWords
         \cup {a \o <<" ">> \o b : a \in ErrorWords, b \in ErrorWords}
Errors == {NoError} \cup {[isError |-> TRUE, message |-> t] : t \in ErrorTexts}

\* ------------------------------------------------------------- properties
\* what the worker posts in the step at hand, and what job j posts in it
Posted ==
  IF Len(toHost') >= Len(toHost) /\ SubSeq(toHost', 1, Len(toHost)) = toHost
  THEN SubSeq(toHost', Len(toHost) + 1, Len(toHost'))
  ELSE <<>>

PostedBy(j) == SelectSeq(Posted, LAMBDA m : m.job = j)
Types(out) == [k \in 1..Len(out) |-> out[k].type]

\* job j runs a block in the step at hand (it is started, resumed or ended)
Runs(j) == jobs'[j] # jobs[j]

\* job j's descriptor in such a step
Rec(j) == IF jobs[j].kind = "none" THEN jobs'[j] ELSE jobs[j]

\* everything job j has posted once the step is over, `out` being what it
\* posts in the step
SentAfter(j, out) == jobs[j].sent \o [k \in 1..Len(out) |-> Sent(out[k])]

Terminal(t) == t \in {"completed", "error"}
Closing(t) == t \in {"stopped", "all_complete"}
Pos(batch, s) == CHOOSE k \in 1..Len(batch) : batch[k] = s

\* the entries of h after the first `old` ones keep the batch order: a
\* terminal notification comes after those of all earlier scenes and of no
\* later or equal scene, and a scene is named only after the terminal
\* notification of every scene before it
OrderOK(batch, h, old) ==
  \A q \in (old + 1)..Len(h) :
    h[q].scene # 0 =>
      LET k == Pos(batch, h[q].scene)
          before == {h[p].scene : p \in {p \in 1..(q - 1) :
                                           Terminal(h[p].type)}}
      IN /\ \A i \in 1..(k - 1) : batch[i] \in before
         /\ Terminal(h[q].type) =>
              \A i \in k..Len(batch) : batch[i] \notin before

\* C1: in a generate-all run the terminal notifications (completed, error)
\* come strictly in list order, at most one per scene, and a scene is named
\* by a notification only after the terminal notification of every scene
\* before it in the list.
C1_BatchOrder ==
  [][\A j \in JobIds :
       (Runs(j) /\ Rec(j).kind = "all") =>
         \A h \in {SentAfter(j, PostedBy(j))} :
           OrderOK(Rec(j).batch, h, Len(jobs[j].sent))]_vars

\* a run over three scenes that has posted the terminal notifications of the
\* first two and works on the third
C1_Witness ==
  \E j \in JobIds :
    /\ jobs[j].kind = "all" /\ Len(jobs[j].batch) = 3
    /\ jobs[j].idx = 3 /\ jobs[j].pc = "image"
    /\ Cardinality({p \in 1..Len(jobs[j].sent) :
                      Terminal(jobs[j].sent[p].type)}) = 2

\* C2: a generate-all run posts exactly one closing notification, in the
\* step that ends it: 'stopped' if a stop message was received during the
\* run, 'all_complete' otherwise; it posts no closing notification before.
C2_OneClosing ==
  [][\A j \in JobIds :
       (Runs(j) /\ jobs[j].kind = "all" /\ Active(j)) =>
         \A cl \in {SelectSeq(Types(PostedBy(j)), Closing)} :
           IF jobs'[j].pc = "done"
           THEN cl = <<IF j \in StopSeen THEN "stopped" ELSE "all_complete">>
           ELSE cl = <<>>]_vars

\* C3: once the worker has received a stop message during a generate-all
\* run, that run issues no further image or video request and posts no
\* further progress, image_generating, video_generating, countdown or
\* completed notification.
C3_NoNewWorkAfterStop ==
  [][\A j \in StopSeen :
       Runs(j) =>
         /\ OwnReqs(j)' \subseteq OwnReqs(j)
         /\ \A out \in {PostedBy(j)} :
              \A k \in 1..Len(out) : out[k].type \in {"stopped", "error"}]_vars

\* C4: in a batch [A,B,C] where A completed and the stop message arrived in
\* the delay after A, the next countdown tick of the run posts 'stopped' and
\* nothing else (so no image_generating for B or C), and once the host has
\* applied that 'stopped', A is completed and B and C are idle.
C4_StopInDelay ==
  [][/\ \A j \in JobIds :
          (/\ Runs(j) /\ jobs[j].stopAt = <<"delay", 1, TRUE>>
           /\ Len(jobs[j].batch) = 3) =>
            /\ jobs'[j].pc = "done"
            /\ Types(PostedBy(j)) = <<"stopped">>
     /\ (/\ toHost # <<>> /\ toHost' = Tail(toHost)
         /\ Head(toHost).type = "stopped" /\ resets = 0
         /\ Head(toHost).arg[1] = <<"delay", 1, TRUE>>
         /\ Len(Head(toHost).arg[2]) = 3) =>
          \A b \in {Head(toHost).arg[2]} :
            /\ scenes'[b[1]].status = "completed"
            /\ scenes'[b[2]].status = "idle"
            /\ scenes'[b[3]].status = "idle"]_vars

\* C5: in a generate-all run that received no stop message, a failed image
\* or video call posts one error notification, with a message, for the
\* scene at hand and for no other; the run then goes on with the delay or
\* the next scene, and when it ends every scene of the batch has got exactly
\* one terminal notification and the last notification is all_complete.
C5_FailureIsolated ==
  [][\A j \in JobIds :
       (Runs(j) /\ jobs[j].kind = "all" /\ Active(j) /\ j \notin StopSeen) =>
         \A out \in {PostedBy(j)} :
           \A errs \in {SelectSeq(out, LAMBDA m : m.type = "error")} :
             /\ Len(errs) <= 1
             /\ errs # <<>> =>
                  /\ errs[1] = out[1]
                  /\ errs[1].scene = jobs[j].batch[jobs[j].idx]
                  /\ errs[1].arg \in FailKinds
                  /\ IF jobs[j].idx < Len(jobs[j].batch)
                     THEN \/ jobs'[j].pc = "delay"
                          \/ jobs'[j].pc = "image"
                             /\ jobs'[j].idx = jobs[j].idx + 1
                     ELSE jobs'[j].pc = "done"
             /\ jobs'[j].pc = "done" =>
                  /\ out # <<>> /\ out[Len(out)].type = "all_complete"
                  /\ \A h \in {SentAfter(j, out)} :
                       \A i \in 1..Len(jobs[j].batch) :
                         Cardinality({p \in 1..Len(h) :
                                        /\ Terminal(h[p].type)
                                        /\ h[p].scene = jobs[j].batch[i]}) = 1]_vars

\* a run that got an error for its first scene and works on the second
C5_Witness ==
  \E j \in JobIds :
    /\ jobs[j].kind = "all" /\ j \notin StopSeen /\ ~isAborted
    /\ jobs[j].idx = 2 /\ jobs[j].pc = "video_start"
    /\ \E p \in 1..Len(jobs[j].sent) :
         /\ jobs[j].sent[p].type = "error"
         /\ jobs[j].sent[p].scene = jobs[j].batch[1]

\* C6: a generate-all run has at most one remote request outstanding, and it
\* has posted image_generating for a scene of its batch only after the
\* terminal notification of the scene before it.
C6_OneSceneAtATime ==
  \A j \in JobIds :
    jobs[j].kind = "all" =>
      /\ Cardinality(OwnReqs(j)) <= 1
      /\ \A p \in 1..Len(jobs[j].sent) :
           (/\ jobs[j].sent[p].type = "image_generating"
            /\ jobs[j].sent[p].scene # jobs[j].batch[1]) =>
             \E q \in 1..(p - 1) :
               /\ Terminal(jobs[j].sent[q].type)
               /\ Pos(jobs[j].batch, jobs[j].sent[q].scene)
                    = Pos(jobs[j].batch, jobs[j].sent[p].scene) - 1

\* a run whose second scene has its video request outstanding
C6_Witness ==
  \E j \in JobIds :
    /\ jobs[j].kind = "all" /\ jobs[j].idx = 2
    /\ OwnReqs(j) = {Req(j, jobs[j].batch[2], "video")}

\* the notification sequences of a generate-one job
OneSequences ==
  {<<"image_generating">>,
   <<"image_generating", "error">>,
   <<"image_generating", "video_generating">>,
   <<"image_generating", "video_generating", "error">>,
   <<"image_generating", "video_generating", "completed">>}

\* C7: a generate-one job posts, for its own scene only, image_generating,
\* then video_generating with the image, then completed, an error taking the
\* place of the notification whose call failed; when it ends it has posted
\* exactly one terminal notification, the last one.
C7_GenerateOne ==
  [][\A j \in JobIds :
       (Runs(j) /\ Rec(j).kind = "one") =>
         \A out \in {PostedBy(j)} :
           /\ \A k \in 1..Len(out) :
                /\ out[k].scene = Rec(j).batch[1]
                /\ out[k].type = "video_generating" => out[k].arg = j
           /\ \A t \in {[p \in 1..(Len(jobs[j].sent) + Len(out)) |->
                           IF p <= Len(jobs[j].sent)
                           THEN jobs[j].sent[p].type
                           ELSE out[p - Len(jobs[j].sent)].type]} :
                /\ t \in OneSequences
                /\ jobs'[j].pc = "done" <=> Terminal(t[Len(t)])]_vars

\* a generate-one job between its image and its video, the abort flag up
C7_Witness ==
  \E j \in JobIds :
    /\ jobs[j].kind = "one" /\ jobs[j].pc = "video_start" /\ isAborted
    /\ Types(jobs[j].sent) = <<"image_generating", "video_generating">>

\* the status changes of a scene
Transitions ==
  ({"idle", "error", "completed"} \X {"image_generating"})
    \cup ({"image_generating"} \X {"video_generating", "error", "idle"})
    \cup ({"video_generating"} \X {"completed", "error", "idle"})

\* C8: in the Scene Store every status change of a scene is one of
\* idle/error/completed -> image_generating, image_generating ->
\* video_generating, image_generating -> error, video_generating ->
\* completed, video_generating -> error, image_generating/video_generating
\* -> idle.
C8_StatusTransitions ==
  [][Len(scenes') = Len(scenes) =>
       \A k \in 1..Len(scenes) :
         scenes'[k].status # scenes[k].status =>
           <<scenes[k].status, scenes'[k].status>> \in Transitions]_vars

\* C9: once the host has applied a 'stopped' notification, a notification of
\* a job started before it changes no scene.
C9_LateIgnored ==
  [][(/\ toHost # <<>> /\ toHost' = Tail(toHost)
      /\ Head(toHost).job < staleBelow) => scenes' = scenes]_vars

\* C10 (as stated): a stop message received between two polls of a run's
\* video operation takes effect at the next poll: the run leaves the poll
\* loop and ends there, with 'stopped' unless that poll reported a failure,
\* whether or not the operation has completed.
C10_StopBetweenPolls ==
  [][\A j \in JobIds :
       (Runs(j) /\ jobs[j].stopAt = <<"poll">> /\ jobs[j].pc = "polling") =>
         /\ jobs'[j].pc = "done"
         /\ \A t \in {Types(PostedBy(j))} :
              t = <<"stopped">> \/ (t # <<>> /\ t[1] = "error")]_vars

\* C10 (amended): a stop message received between two polls does not end the
\* polling.  While the operation is pending, and when it reports success,
\* the run posts nothing and goes on to poll or to fetch the payload; the
\* abort flag is looked at only when the video call has returned: after the
\* fetch the run posts 'stopped' in place of 'completed', and a failed
\* operation or fetch posts the scene's error, followed by 'stopped' unless
\* the scene is the last of the batch.
C10_StopAfterVideoCall ==
  [][\A j \in JobIds :
       (Runs(j) /\ jobs[j].stopAt = <<"poll">> /\ isAborted) =>
         \A t \in {Types(PostedBy(j))} :
           /\ jobs[j].pc = "polling" =>
                IF jobs'[j].pc \in {"polling", "fetch"} THEN t = <<>>
                ELSE /\ jobs'[j].pc = "done"
                     /\ t = IF jobs[j].idx < Len(jobs[j].batch)
                            THEN <<"error", "stopped">> ELSE <<"error">>
           /\ jobs[j].pc = "fetch" =>
                /\ jobs'[j].pc = "done"
                /\ t \in {<<"stopped">>,
                          IF jobs[j].idx < Len(jobs[j].batch)
                          THEN <<"error", "stopped">> ELSE <<"error">>}]_vars

\* the stop message arrived between two polls and the run went on to fetch
\* the payload
C10_Witness ==
  \E j \in JobIds :
    jobs[j].stopAt = <<"poll">> /\ jobs[j].pc = "fetch" /\ isAborted

\* the status and the artifact references of a scene
Pipeline(sc) == <<sc.status, sc.generatedImageBase64, sc.generatedVideoUrl>>

\* the step at hand is worker.onmessage applying a notification
Applies == toHost # <<>> /\ toHost' = Tail(toHost)

\* the scenes whose status or artifacts the step at hand changes
Touched == {k \in 1..Len(scenes) : Pipeline(scenes'[k]) # Pipeline(scenes[k])}

\* C11 (as stated): the status and the artifact references of a scene change
\* only in a step that applies a worker notification.
C11_OnlyNotifications ==
  [][(Len(scenes') = Len(scenes) /\ ~Applies) => Touched = {}]_vars

\* C11 (amended): outside the application of a worker notification the only
\* change to the status or the artifact references of a scene is the one
\* handleGenerateSingleClip makes before it posts generate-one: the status
\* of that one scene becomes image_generating and its error message is
\* cleared, its artifact references stay as they are.
C11_OnlyNotificationsOrStart ==
  [][(Len(scenes') = Len(scenes) /\ ~Applies) =>
       \A ch \in {Touched} :
         ch # {} =>
           \E k \in 1..Len(scenes) :
             /\ ch = {k}
             /\ scenes'[k] = [scenes[k] EXCEPT !.status = "image_generating",
                                               !.errorMessage = "none"]
             /\ toWorker' = Append(toWorker,
                              [type |-> "generate-one", job |-> nextJob,
                               scenes |-> <<k>>, from |-> scenes[k].status,
                               delay |-> 0])]_vars

\* a completed scene was started again and its generate-one message is
\* still on its way to the worker
C11_Witness ==
  \E p \in 1..Len(toWorker) :
    /\ toWorker[p].type = "generate-one"
    /\ scenes[toWorker[p].scenes[1]].status = "image_generating"
    /\ scenes[toWorker[p].scenes[1]].generatedVideoUrl # 0
    /\ toHost = <<>>

\* C12: a scene with status completed holds an image reference and a video
\* reference, and both come from the same attempt.
C12_CompletedHasBoth ==
  \A k \in 1..Len(scenes) :
    scenes[k].status = "completed" =>
      /\ scenes[k].generatedImageBase64 # 0
      /\ scenes[k].generatedVideoUrl # 0
      /\ scenes[k].generatedImageBase64 = scenes[k].generatedVideoUrl

\* what a generate-one job may post in one block, by where it is suspended
OneStep(job) ==
  CASE job.pc = "image" -> {<<"video_generating">>, <<"error">>}
    [] job.pc = "fetch" -> {<<"completed">>, <<"error">>}
    [] OTHER            -> {<<>>, <<"error">>}

\* C13: a stop message leaves a generate-one job as it is, and with the
\* abort flag up or down each block of the job posts what its remote call
\* decides: the next stage or an error, ending in completed or error, and
\* never 'stopped'.
C13_StopNeverGatesOne ==
  [][\A j \in JobIds :
       (jobs[j].kind = "one" /\ Active(j)) =>
         /\ (toWorker # <<>> /\ toWorker' = Tail(toWorker)
               /\ Head(toWorker).type = "stop") =>
              jobs'[j] = jobs[j] /\ OwnReqs(j)' = OwnReqs(j)
         /\ Runs(j) =>
              \A t \in {Types(PostedBy(j))} :
                /\ t \in OneStep(jobs[j])
                /\ jobs'[j].pc = "done" <=>
                     t \in {<<"completed">>, <<"error">>}]_vars

\* a generate-one job has posted completed although the abort flag is up
C13_Witness ==
  /\ isAborted
  /\ \E p \in 1..Len(toHost) :
       toHost[p].type = "completed" /\ jobs[toHost[p].job].kind = "one"

\* the candidates (by position in `prompts`) bound to a scene so far
Bound == {sceneData[k].imagePrompt : k \in 1..Len(sceneData)} \ {0}
Pool == {availablePrompts[i].imagePrompt : i \in 1..Len(availablePrompts)}

\* C14: no prompt candidate is bound to more than one scene: the scenes
\* with a binding hold pairwise different candidates, and a bound candidate
\* is no longer in the pool.
C14_BoundOnce ==
  /\ \A k1, k2 \in 1..Len(sceneData) :
       (k1 # k2 /\ sceneData[k1].imagePrompt # 0) =>
         sceneData[k1].imagePrompt # sceneData[k2].imagePrompt
  /\ Bound \cap Pool = {}
  /\ Cardinality(Bound) + Len(availablePrompts) = Len(prompts)

\* two sections with the same header got the two candidates with that label
C14_Witness ==
  /\ pass = "done" /\ Len(sceneData) >= 2 /\ Len(prompts) >= 2
  /\ sceneData[1].sectionHeader = sceneData[2].sectionHeader
  /\ prompts[1].section = prompts[2].section
  /\ {sceneData[1].imagePrompt, sceneData[2].imagePrompt} = {1, 2}

\* the cleaned labels of the candidates are the cleaned headers of the
\* sections, one candidate per section
SameLabels ==
  /\ Len(prompts) = Len(parsed)
  /\ \E f \in Permutations(1..Len(parsed)) :
       \A k \in 1..Len(parsed) :
         cleaned(prompts[f[k]].section) = cleaned(parsed[k].header)

\* C15: with N sections and N candidates whose cleaned labels are the
\* sections' cleaned headers, every scene of the finished pass has a
\* non-empty binding.
C15_AllBound ==
  (pass = "done" /\ SameLabels) =>
    \A k \in 1..Len(sceneData) : sceneData[k].imagePrompt # 0

\* the smallest element of a non-empty set of indices
Least(S) == CHOOSE i \in S : \A k \in S : i <= k

\* C16: for each section the matcher takes the first pool candidate whose
\* cleaned label equals the cleaned header; only if the pool has none, the
\* first whose label contains the header or is contained in it; if there is
\* none either, the scene gets empty prompts and the pool stays as it is.
C16_ExactFirst ==
  [][(pass = "matching" /\ Len(sceneData') = Len(sceneData) + 1) =>
       \A h \in {cleaned(parsed[Len(sceneData) + 1].header)} :
         LET n == Len(availablePrompts)
             exact == {i \in 1..n : cleaned(availablePrompts[i].section) = h}
             partial == {i \in 1..n :
                           \/ includes(h, cleaned(availablePrompts[i].section))
                           \/ includes(cleaned(availablePrompts[i].section), h)}
             new == sceneData'[Len(sceneData) + 1]
         IN IF exact \cup partial = {}
            THEN new.imagePrompt = 0 /\ availablePrompts' = availablePrompts
            ELSE LET i == IF exact # {} THEN Least(exact) ELSE Least(partial)
                 IN /\ new.imagePrompt = availablePrompts[i].imagePrompt
                    /\ availablePrompts' = splice(availablePrompts, i)]_vars

\* str is a part of other, or equal to it
Within(str, other) == includes(other, str)

\* every scene of the finished pass holds the candidate whose label, taken
\* through `norm`, is the scene's header taken through `norm`
OwnCandidate(norm(_)) ==
  \A k \in 1..Len(sceneData) :
    /\ sceneData[k].imagePrompt # 0
    /\ norm(prompts[sceneData[k].imagePrompt].section)
         = norm(sceneData[k].sectionHeader)

\* the headers, taken through `norm`, are pairwise distinct, none is a part
\* of another, and the candidates carry exactly those labels
DistinctLabels(norm(_)) ==
  /\ \A k1, k2 \in 1..Len(parsed) :
       k1 # k2 => ~Within(norm(parsed[k1].header), norm(parsed[k2].header))
  /\ Len(prompts) = Len(parsed)
  /\ \E f \in Permutations(1..Len(parsed)) :
       \A k \in 1..Len(parsed) :
         norm(prompts[f[k]].section) = norm(parsed[k].header)

\* a header or label as written
AsWritten(str) == str

\* C17 (as stated): when the section headers are pairwise distinct, none is
\* a substring of another, and the candidates carry exactly those labels,
\* each scene is bound to the candidate that carries its own header.
C17_OwnCandidate ==
  (pass = "done" /\ DistinctLabels(AsWritten)) => OwnCandidate(AsWritten)

\* C17 (amended): when the cleaned section headers (lower case, brackets,
\* parentheses and colons removed, trimmed) are pairwise distinct, none is a
\* substring of another, and the cleaned labels of the candidates are
\* exactly those cleaned headers, each scene is bound to the candidate whose
\* cleaned label is its own cleaned header, whatever the candidates' order.
C17_OwnCleanedCandidate ==
  (pass = "done" /\ DistinctLabels(cleaned)) => OwnCandidate(cleaned)

\* two sections whose candidates arrive in the opposite order
C17_Witness ==
  /\ pass = "done" /\ Len(parsed) = 2 /\ DistinctLabels(cleaned)
  /\ cleaned(prompts[1].section) = cleaned(parsed[2].header)
  /\ sceneData[1].imagePrompt = 2 /\ sceneData[2].imagePrompt = 1

\* C18: a matching pass builds one scene per section, in section order,
\* with the section's position as id, status idle and the section's header
\* and content, whatever the number of candidates; the finished pass has
\* exactly as many scenes as sections and puts as many into the store.
C18_OneScenePerSection ==
  /\ Len(sceneData) <= Len(parsed)
  /\ \A k \in 1..Len(sceneData) :
       /\ sceneData[k].id = k
       /\ sceneData[k].status = "idle"
       /\ sceneData[k].sectionHeader = parsed[k].header
       /\ sceneData[k].sectionContent = parsed[k].content
  /\ pass = "done" =>
       /\ Len(sceneData) = Len(parsed)
       /\ Len(scenes) = Len(parsed)
       /\ \A k \in 1..Len(scenes) : scenes[k].status = "idle"

\* a finished pass over three sections with a single candidate, bound to
\* the second section
C18_Witness ==
  /\ pass = "done" /\ Len(parsed) = 3 /\ Len(prompts) = 1
  /\ Len(sceneData) = 3
  /\ sceneData[1].imagePrompt = 0 /\ sceneData[2].imagePrompt = 1

\* the call of parseLyrics has returned
Parsed == pass \in {"parsed by utils", "parsed by App"}

\* a string made only of white space (the empty string included)
Blank(str) == \A i \in 1..Len(str) : str[i] \in WhiteSpace

IsSectionList(list) ==
  /\ DOMAIN list = 1..Len(list)
  /\ \A i \in 1..Len(list) :
       /\ DOMAIN list[i] = {"header", "content"}
       /\ DOMAIN list[i].header = 1..Len(list[i].header)
       /\ DOMAIN list[i].content = 1..Len(list[i].content)

\* C19: the Segmenter is total: for every text the call returns, whichever
\* declaration it is bound to, and what it returns is a list of sections;
\* for the empty text and for a text of white space only the list is empty.
C19_Total ==
  /\ pass = "parsing" => /\ IsSectionList(parseLyrics(lyrics))
                         /\ IsSectionList(parseLyricsApp(lyrics))
  /\ Parsed => /\ IsSectionList(parsed)
               /\ Blank(lyrics) => parsed = <<>>

\* a text of white space, not empty, has been segmented
C19_Witness ==
  /\ Parsed
  /\ lyrics # <<>>
  /\ Blank(lyrics)
  /\ \E i \in 1..Len(lyrics) : lyrics[i] = "\n"
  /\ parsed = <<>>

\* the blocks of a text: the maximal runs of lines that are not blank
RECURSIVE Stanzas(_, _)
Stanzas(lines, current) ==
  LET closed == IF current = <<>> THEN <<>> ELSE <<current>>
  IN IF lines = <<>> THEN closed
     ELSE IF Blank(Head(lines))
     THEN closed \o Stanzas(Tail(lines), <<>>)
     ELSE Stanzas(Tail(lines), Append(current, Head(lines)))

\* a text whose line breaks are line feeds
Plain(str) == \A i \in 1..Len(str) : str[i] \notin {"\r", "\\"}

\* a first line that is a short header: bracketed, parenthesized or a
\* keyword of the vocabulary with its number and colon
IsShortHeader(line) ==
  appHeaderMatch(line).found /\ Len(line) < HeaderLimit

\* C20: the Segmenter yields one section per block that is not blank, in
\* order.  A block whose first line is a short header yields that header
\* and its remaining lines as content, empty when there is no other line;
\* any other block yields the empty header and the whole block as content.
C20_SectionPerBlock ==
  (Parsed /\ Plain(lyrics)) =>
    LET blocks == Stanzas(splitLines(lyrics), <<>>)
    IN /\ Len(parsed) = Len(blocks)
       /\ \A i \in 1..Len(parsed) :
            LET firstLine == trim(blocks[i][1])
            IN IF IsShortHeader(firstLine)
               THEN /\ parsed[i].header = stripTrailing(firstLine)
                    /\ parsed[i].content = trim(join(Tail(blocks[i])))
               ELSE /\ parsed[i].header = <<>>
                    /\ parsed[i].content = trim(join(blocks[i]))


\* a first line that is a keyword of the vocabulary, optionally numbered
\* and optionally closed by a colon: Chorus, Chorus:, Verse 1, Verse 1:
IsKeywordLine(line) ==
  \E kw \in appKeywords :
    /\ startsWith(line, kw)
    /\ LET rest == SubSeq(line, Len(kw) + 1, Len(line))
           number == IF rest # <<>> /\ rest[Len(rest)] = ":"
                     THEN SubSeq(rest, 1, Len(rest) - 1) ELSE rest
       IN \/ number = <<>>
          \/ /\ Len(number) >= 2
             /\ number[1] = " "
             /\ \A k \in 2..Len(number) : number[k] \in Digits

\* the line without its closing colon
WithoutColon(line) ==
  IF line # <<>> /\ line[Len(line)] = ":"
  THEN SubSeq(line, 1, Len(line) - 1) ELSE line

\* the example of the specification and what it segments to
ExampleText ==
  <<"V", "e", "r", "s", "e", " ", "1", ":", "\n",
    "H", "e", "l", "l", "o", " ", "t", "h", "e", "r", "e", "\n", "\n",
    "C", "h", "o", "r", "u", "s", ":", "\n",
    "S", "h", "i", "n", "e", " ", "o", "n">>
ExampleSections ==
  <<[header |-> <<"V", "e", "r", "s", "e", " ", "1">>,
     content |-> <<"H", "e", "l", "l", "o", " ", "t", "h", "e", "r", "e">>],
    [header |-> <<"C", "h", "o", "r", "u", "s">>,
     content |-> <<"S", "h", "i", "n", "e", " ", "o", "n">>]>>

\* C21: when every block of the text opens with a keyword line and has
\* lines after it, the sections are the blocks in order, each with the
\* keyword line without its colon as header and the rest of the block as
\* content; the example text segments to {Verse 1, Hello there},
\* {Chorus, Shine on}.
C21_KeywordHeaders ==
  (Parsed /\ Plain(lyrics)) =>
    LET blocks == Stanzas(splitLines(lyrics), <<>>)
    IN /\ (\A i \in 1..Len(blocks) :
             IsKeywordLine(trim(blocks[i][1])) /\ Len(blocks[i]) > 1)
          => /\ Len(parsed) = Len(blocks)
             /\ \A i \in 1..Len(blocks) :
                  /\ parsed[i].header = WithoutColon(trim(blocks[i][1]))
                  /\ parsed[i].content = trim(join(Tail(blocks[i])))
       /\ lyrics = ExampleText => parsed = ExampleSections

\* C21 for the example alone
C21_Example == (Parsed /\ lyrics = ExampleText) => parsed = ExampleSections


\* the characters of a string that are not white space
NonWhite(str) == SelectSeq(str, LAMBDA c : c \notin WhiteSpace)

\* the same without the delimiters of a header line: brackets, parentheses
\* and colons
Essential(str) ==
  SelectSeq(str, LAMBDA c : c \notin WhiteSpace \cup {"[", "]", "(", ")", ":"})

IsSuffix(tail, str) ==
  /\ Len(tail) <= Len(str)
  /\ SubSeq(str, Len(str) - Len(tail) + 1, Len(str)) = tail

\* the ways the sections returned can come from the blocks of the text,
\* in order
Origins(blocks) ==
  {f \in [1..Len(parsed) -> 1..Len(blocks)] :
     \A i \in 1..Len(parsed) : \A k \in 1..(i - 1) : f[k] < f[i]}

Current(j) == jobs[j].batch[jobs[j].idx]

\* block b is the poller failing with a message of class `kind`: the scene's
\* error is posted, the job is out of the poll loop and asks nothing more
\* of the video service
PollerFails(b, j, kind) ==
  /\ b.out # <<>>
  /\ b.out[1] = Msg(j, "error", Current(j), kind)
  /\ b.job.pc \notin {"polling", "fetch"}
  /\ \A r \in b.req : r.kind # "video"

\* C23: the poller re-queries until the operation is reported done and then
\* has one outcome: the operation's failure if it carries an error, else a
\* failure if it has no locator, else the fetch of the payload, whose
\* failure is the outcome if it fails and whose result is a local reference
\* otherwise.  After a failure it neither re-queries nor re-fetches.
C23_PollerOutcome ==
  [][\A j \in JobIds :
       (Runs(j) /\ toWorker' = toWorker) =>
         /\ jobs[j].pc \in {"video_start", "polling"} =>
              /\ \A op \in OpStates, kind \in FailKinds :
                   \A b \in {pollForVideoResult(j, jobs[j], op, kind,
                                                isAborted)} :
                     IF ~op.done
                     THEN b = Block([jobs[j] EXCEPT !.pc = "polling"],
                                    <<>>, {})
                     ELSE IF op.error THEN PollerFails(b, j, kind)
                     ELSE IF ~op.uri THEN PollerFails(b, j, "other")
                     ELSE b = Block([jobs[j] EXCEPT !.pc = "fetch"],
                                    <<>>, {})
              /\ \A out \in {PostedBy(j)} :
                   \/ jobs'[j].pc \in {"polling", "fetch"} /\ out = <<>>
                   \/ /\ jobs'[j].pc \notin {"polling", "fetch"}
                      /\ out # <<>>
                      /\ out[1].type = "error"
                      /\ out[1].scene = Current(j)
         /\ jobs[j].pc = "fetch" =>
              \A out \in {PostedBy(j)} :
                /\ jobs'[j].pc \notin {"polling", "fetch"}
                /\ out # <<>>
                /\ out[1] \in {Msg(j, "completed", Current(j), j),
                               Msg(j, "error", Current(j), "other"),
                               Stopped(j, jobs[j])}
                /\ \A p \in 2..Len(out) :
                     ~(Terminal(out[p].type) /\ out[p].scene = Current(j))]_vars

\* a run whose first scene failed in the video stage is fetching the
\* payload of its second scene
C23_Witness ==
  \E j \in JobIds :
    /\ jobs[j].pc = "fetch"
    /\ jobs[j].idx = 2
    /\ \E p \in 2..Len(jobs[j].sent) :
         /\ jobs[j].sent[p].type = "error"
         /\ jobs[j].sent[p - 1].type = "video_generating"
         /\ jobs[j].sent[p].scene = jobs[j].batch[1]


\* C24: the poller has no timeout of its own.  A job leaves the poll loop
\* only in a step in which a query reported the operation done (it goes on
\* to the fetch, or posts the failure the operation carries) or in which
\* the query failed (it posts that failure); a query that reports the
\* operation pending leaves the job exactly as it was, so that nothing
\* counts the iterations; and when the service comes to report the
\* operation done, the job leaves the loop.
C24_NoTimeout ==
  /\ [][\A j \in JobIds :
          /\ (jobs[j].pc \in {"video_start", "polling"} /\ Runs(j)) =>
               \A kind \in FailKinds :
                 pollForVideoResult(j, jobs[j], PendingOp, kind, isAborted)
                   = Block([jobs[j] EXCEPT !.pc = "polling"], <<>>, {})
          /\ (jobs[j].pc = "polling" /\ jobs'[j].pc # "polling") =>
                 \A out \in {PostedBy(j)} :
                   \/ jobs'[j].pc = "fetch" /\ out = <<>>
                   \/ /\ out # <<>>
                      /\ out[1].type = "error"
                      /\ out[1].scene = Current(j)]_vars
  /\ \A j \in JobIds : (jobs[j].pc = "polling") ~> (jobs[j].pc # "polling")

\* two jobs are in the poll loop at once
C24_Witness == \A j \in 1..MaxJobs : jobs[j].pc = "polling"


\* the ids of the scenes are their positions (and so are unique)
IdsOK(scn) == \A k \in 1..Len(scn) : scn[k].id = k

\* `new` differs from `old` at most in the fields `fields` of the scene
\* with that id
Frame(old, new, id, fields) ==
  /\ Len(new) = Len(old)
  /\ \A k \in 1..Len(old) :
       /\ DOMAIN new[k] = DOMAIN old[k]
       /\ \A f \in DOMAIN old[k] :
            new[k][f] # old[k][f] => (old[k].id = id /\ f \in fields)

\* the fields each notification lists (App.tsx:302-313)
Listed(type) ==
  CASE type = "image_generating" -> {"status"}
    [] type = "video_generating" -> {"generatedImageBase64", "status"}
    [] type = "completed" -> {"generatedVideoUrl", "status"}
    [] type = "error" -> {"status", "errorMessage"}
    [] OTHER -> {}

SampleUpdates ==
  {[status |-> "error", errorMessage |-> "other"],
   [generatedVideoUrl |-> 1, status |-> "completed"],
   [errorMessage |-> "none"]}

\* C25: a per-id partial update changes only the listed fields of the scene
\* with that id; the other fields, the other scenes, their number and
\* order stay, and an update for an id not in the store changes nothing.
\* Whatever the store operations, the ids are the positions.
C25_UpdateFrame ==
  [][/\ IdsOK(scenes')
     /\ (Applies /\ Head(toHost).scene # 0) =>
          /\ Frame(scenes, scenes', Head(toHost).scene,
                   Listed(Head(toHost).type))
          /\ Head(toHost).scene \notin 1..Len(scenes) => scenes' = scenes
     /\ scenes' # scenes =>
          \A id \in 0..(MaxScenes + 1), updates \in SampleUpdates :
            \A new \in {updateScene(scenes', id, updates)} :
              /\ Frame(scenes', new, id, DOMAIN updates)
              /\ \A k \in 1..Len(new) :
                   scenes'[k].id = id =>
                     \A f \in DOMAIN updates : new[k][f] = updates[f]
              /\ id \notin 1..Len(scenes') => new = scenes']_vars

\* the first scene is completed with its image and its clip while the
\* second is in its video stage with its image
C25_Witness ==
  /\ Len(scenes) = StoreScenes
  /\ scenes[1].status = "completed"
  /\ scenes[1].generatedImageBase64 # 0
  /\ scenes[1].generatedVideoUrl # 0
  /\ scenes[2].status = "video_generating"
  /\ scenes[2].generatedImageBase64 # 0


Generating == {"image_generating", "video_generating"}

\* C26: once the host has applied 'stopped', no scene is in a generating
\* status: each scene that was is idle, the idle, completed and error
\* scenes are as they were, and the batch-running flag is false.
C26_StoppedCleanup ==
  [][(Applies /\ Head(toHost).type = "stopped") =>
       /\ Len(scenes') = Len(scenes)
       /\ \A k \in 1..Len(scenes) :
            /\ scenes'[k].status \notin Generating
            /\ scenes[k].status \in Generating =>
                 scenes'[k].status = "idle"
            /\ scenes[k].status \notin Generating =>
                 scenes'[k] = scenes[k]
       /\ ~isGeneratingClips']_vars

\* 'stopped' was applied last: a scene stopped in its video stage is idle
\* and keeps its image, next to a completed one and a failed one
C26_Witness ==
  /\ generationStatusMessage = <<"stopped">>
  /\ ~isGeneratingClips
  /\ \E k \in 1..Len(scenes) :
       scenes[k].status = "idle" /\ scenes[k].generatedImageBase64 # 0
  /\ \E k \in 1..Len(scenes) : scenes[k].status = "completed"
  /\ \E k \in 1..Len(scenes) : scenes[k].status = "error"


\* what a whole wait of d minutes posts: the waiting message, then the
\* seconds left from d minutes down to 1, then 0
Waits(d) ==
  <<[type |-> "progress", scene |-> 0, arg |-> 0]>> \o
  [n \in 1..(d * SecondsPerMinute + 1) |->
     [type |-> "countdown", scene |-> 0,
      arg |-> d * SecondsPerMinute + 1 - n]]

\* the entries of h after the first `old` ones: the progress notification
\* of a scene other than the first comes right after the terminal
\* notification of the scene before it and one whole wait, and no
\* countdown comes after the terminal notification of the last scene
CountdownOK(batch, d, h, old) ==
  \A q \in (old + 1)..Len(h) :
    /\ (h[q].type = "progress" /\ h[q].scene # 0
          /\ Pos(batch, h[q].scene) > 1) =>
         LET n == Len(Waits(d))
         IN /\ q > n + 1
            /\ Terminal(h[q - n - 1].type)
            /\ h[q - n - 1].scene = batch[Pos(batch, h[q].scene) - 1]
            /\ SubSeq(h, q - n, q - 1) = Waits(d)
    /\ h[q].type = "countdown" =>
         \A p \in 1..(q - 1) :
           ~(Terminal(h[p].type) /\ h[p].scene = batch[Len(batch)])

Countdowns(out) == SelectSeq(out, LAMBDA m : m.type = "countdown")

\* C27: in a generate-all run with a delay of d minutes, between the
\* terminal notification of a scene other than the last and the progress
\* notification of the next scene the run posts the countdown from the
\* seconds of d minutes down to 1, one per tick of a second, and then 0;
\* after the last scene it posts no countdown.
C27_Countdown ==
  [][\A j \in JobIds :
       (Runs(j) /\ Rec(j).kind = "all") =>
         /\ \A h \in {SentAfter(j, PostedBy(j))} :
              CountdownOK(Rec(j).batch, Rec(j).delay, h, Len(jobs[j].sent))
         /\ Len(Countdowns(PostedBy(j))) <= 1
         /\ (jobs[j].pc = "delay" /\ toWorker' = toWorker /\ ~isAborted) =>
              Countdowns(PostedBy(j)) =
                <<Msg(j, "countdown", 0, jobs[j].i - 1)>>]_vars

\* a run with the longest delay has waited after its first scene and works
\* on the second
C27_Witness ==
  \E j \in JobIds :
    /\ jobs[j].kind = "all"
    /\ jobs[j].delay = MaxDelay
    /\ jobs[j].idx = 2
    /\ jobs[j].pc = "image"
    /\ Len(jobs[j].sent) >= Len(Waits(MaxDelay)) + 2


\* h holds a progress notification naming scene s among its first n entries
Announced(h, s, n) ==
  \E p \in 1..n : h[p].type = "progress" /\ h[p].scene = s

\* C28: in a generate-all run the progress notification naming a scene is
\* posted before the scene's image_generating notification and before any
\* remote request for the scene: no scene is started unannounced.
C28_ProgressFirst ==
  [][\A j \in JobIds :
       (Runs(j) /\ Rec(j).kind = "all") =>
         \A h \in {SentAfter(j, PostedBy(j))} :
           /\ \A q \in (Len(jobs[j].sent) + 1)..Len(h) :
                h[q].type \in {"image_generating", "video_generating"} =>
                  Announced(h, h[q].scene, q - 1)
           /\ \A r \in requests' \ requests :
                r.job = j =>
                  LET q == CHOOSE q \in 1..Len(h) :
                             /\ h[q].scene = r.scene
                             /\ h[q].type \in {"image_generating",
                                              "video_generating"}
                             /\ \A p \in (q + 1)..Len(h) :
                                  h[p].scene # r.scene
                  IN Announced(h, r.scene, q - 1)]_vars

\* a run has announced and started its last scene, whose image request is
\* outstanding
C28_Witness ==
  \E j \in JobIds :
    /\ jobs[j].kind = "all"
    /\ jobs[j].idx = MaxScenes
    /\ Req(j, jobs[j].batch[MaxScenes], "image") \in requests
    /\ Announced(jobs[j].sent, jobs[j].batch[MaxScenes], Len(jobs[j].sent))


\* how many entries of h are notifications of type t for scene s
Count(h, t, s) ==
  Cardinality({q \in 1..Len(h) : h[q].type = t /\ h[q].scene = s})

StageOf(kind) == IF kind = "image" THEN "image_generating"
                 ELSE "video_generating"

\* the host starts a generate-one job in the step at hand
StartsOne ==
  /\ Len(toWorker') = Len(toWorker) + 1
  /\ toWorker'[Len(toWorker')].type = "generate-one"

\* the image reference scene s holds once the host has applied the
\* notifications in `queue`
RECURSIVE ImageAfter(_, _, _)
ImageAfter(queue, s, image) ==
  IF queue = <<>> THEN image
  ELSE ImageAfter(Tail(queue), s,
                  IF Head(queue).type = "video_generating"
                     /\ Head(queue).scene = s
                  THEN Head(queue).arg ELSE image)

\* C29: nothing is repeated by itself: a job issues at most one image
\* request and at most one video start request per scene, and holds no
\* request for a scene once it has posted an error for it.  An explicit
\* generate-one on a scene in error clears the scene's error message, and
\* when it succeeds the scene holds the image and the clip of that attempt:
\* the completed notification carries the attempt's clip, and the image
\* the store holds when the host comes to apply it is the attempt's.
C29_NoRetry ==
  [][/\ \A j \in JobIds :
          Runs(j) =>
            \A h \in {SentAfter(j, PostedBy(j))} :
              /\ \A s \in 1..MaxScenes :
                   /\ Count(h, "image_generating", s) <= 1
                   /\ Count(h, "video_generating", s) <= 1
              /\ \A r \in requests' :
                   r.job = j =>
                     /\ Count(h, StageOf(r.kind), r.scene) = 1
                     /\ Count(h, "error", r.scene) = 0
     /\ StartsOne =>
          \A id \in {toWorker'[Len(toWorker')].scenes[1]} :
            scenes[id].status = "error" =>
              /\ scenes'[id].errorMessage = "none"
              /\ scenes'[id].status = "image_generating"
     /\ \A j \in JobIds :
          (jobs[j].kind = "one" /\ jobs[j].from = "error") =>
            \A m \in {PostedBy(j)[q] : q \in 1..Len(PostedBy(j))} :
              m.type = "completed" =>
                /\ m.arg = j
                /\ m.scene \in 1..Len(scenes)
                /\ ImageAfter(toHost', m.scene,
                              scenes[m.scene].generatedImageBase64) = j]_vars


CredentialClasses == {"key not found", "key invalid"}

\* C30: a scene failure of a credential class (key not found, key invalid)
\* makes the host clear its key-selected flag, and a failure of any other
\* class (internal, quota, network, other) is recorded on the scene and
\* leaves the flag as it is.
C30_CredentialClass ==
  [][(Applies /\ Head(toHost).type = "error") =>
       \A m \in {Head(toHost)} :
         /\ m.scene \in 1..Len(scenes) =>
              /\ scenes'[m.scene].status = "error"
              /\ scenes'[m.scene].errorMessage = m.arg
         /\ IF Class(caught) \in CredentialClasses
            THEN ~isKeySelected'
            ELSE isKeySelected' = isKeySelected]_vars


\* C31: after a reset the Scene Store is empty, the batch-running flag is
\* false, and every video reference held by a scene at the moment of the
\* reset has been revoked.
C31_ResetRevokes ==
  [][resets' = resets + 1 =>
       /\ scenes' = <<>>
       /\ ~isGeneratingClips'
       /\ VideoRefs(scenes) \subseteq revoked']_vars

\* a reset has emptied a store that held a clip: its reference is revoked
C31_Witness ==
  /\ resets = 1
  /\ scenes = <<>>
  /\ ~isGeneratingClips
  /\ revoked # {}


\* the step posts a generate-all message
PostsAll ==
  /\ Len(toWorker') = Len(toWorker) + 1
  /\ toWorker'[Len(toWorker')].type = "generate-all"

\* seq lists, in store order and once each, the scenes whose status is in S
HandsOver(seq, S) ==
  /\ \A q \in 1..Len(seq) : seq[q] \in 1..Len(scenes)
  /\ \A p, q \in 1..Len(seq) : p < q => seq[p] < seq[q]
  /\ {seq[q] : q \in 1..Len(seq)} =
       {k \in 1..Len(scenes) : scenes[k].status \in S}

\* C32 (as stated): start-all hands to the batch exactly the scenes that
\* are not yet completed, in store order.
C32_NotCompleted ==
  [][PostsAll =>
       HandsOver(toWorker'[Len(toWorker')].scenes,
                 {"idle", "error", "image_generating", "video_generating"})
    ]_vars

\* C32 (amended): start-all hands to the batch exactly the idle and the
\* error scenes of the store, in store order, never a completed scene and
\* never one that is in flight; the batch-running flag is raised only by a
\* step that posts such a batch, and no batch is empty.
C32_IdleOrError ==
  [][/\ PostsAll =>
          /\ HandsOver(toWorker'[Len(toWorker')].scenes, {"idle", "error"})
          /\ Len(toWorker'[Len(toWorker')].scenes) > 0
          /\ isGeneratingClips'
     /\ (isGeneratingClips' /\ ~isGeneratingClips) => PostsAll]_vars

\* a batch is on its way to the worker without the scene that a
\* single-scene job has in flight
C32_Witness ==
  /\ isGeneratingClips
  /\ \E q \in 1..Len(toWorker) :
       /\ toWorker[q].type = "generate-all"
       /\ Len(toWorker[q].scenes) > 0
       /\ \E k \in 1..Len(scenes) :
            /\ scenes[k].status \in Generating
            /\ \A p \in 1..Len(toWorker[q].scenes) : toWorker[q].scenes[p] # k


\* C33: if the stop message was received while the image call or the video
\* call of a generate-all run was in flight and that call then succeeds,
\* the run drops the result: it posts 'stopped' and nothing else (no
\* video_generating, no completed) and ends; once the host has applied
\* that 'stopped', no scene of the batch is in a generating status.
C33_DiscardAfterStop ==
  [][/\ \A j \in JobIds :
          (/\ Runs(j) /\ jobs[j].kind = "all"
           /\ jobs[j].stopAt \in {<<"call">>, <<"poll">>}
           /\ jobs[j].pc \in {"image", "fetch"}
           /\ \A q \in 1..Len(PostedBy(j)) : PostedBy(j)[q].type # "error") =>
            /\ Types(PostedBy(j)) = <<"stopped">>
            /\ jobs'[j].pc = "done"
     /\ (/\ Applies /\ Head(toHost).type = "stopped"
         /\ Head(toHost).arg[1] \in {<<"call">>, <<"poll">>}) =>
          \A q \in 1..Len(Head(toHost).arg[2]) :
            \A k \in {Head(toHost).arg[2][q]} :
              k \in 1..Len(scenes') => scenes'[k].status \notin Generating]_vars


\* the scene job j has a remote call in flight for, if any
Processing(j) ==
  IF Active(j) /\ jobs[j].pc \in {"image", "video_start", "polling", "fetch"}
  THEN {jobs[j].batch[jobs[j].idx]}
  ELSE {}

\* C34: no scene is being processed by two jobs at the same time, whether
\* two generate-one jobs or a generate-one and a generate-all job.
C34_OneJobPerScene ==
  \A j1, j2 \in JobIds :
    j1 # j2 => Processing(j1) \cap Processing(j2) = {}


\* C35: the host posts generate-all only when no earlier generate-all run
\* is active in the worker, so two batch loops never run side by side on
\* the one abort flag.
C35_OneBatchAtATime ==
  [][PostsAll => ActiveRuns = {}]_vars


\* C36: after a reset, a notification of a job that was posted before the
\* reset changes no scene of the store (every scene the store holds then
\* was created by a matching pass after the reset), although the new
\* scenes reuse the ids.
C36_NoStaleAfterReset ==
  [][(Applies /\ resets > 0 /\ Head(toHost).job < resetBelow) =>
       scenes' = scenes]_vars


\* C37: a generate-all run starts with the abort flag cleared, whatever a
\* stop message received before its start left in it: it starts its first
\* scene, and a run that receives no stop message after its start never
\* posts 'stopped', and when it ends it has posted a terminal notification
\* for every scene of its batch, in order, and all_complete last.
C37_StaleStop ==
  [][\A j \in JobIds :
       /\ (Runs(j) /\ jobs[j].kind = "none" /\ jobs'[j].kind = "all") =>
            /\ ~isAborted'
            /\ Types(PostedBy(j)) = <<"progress", "image_generating">>
       /\ (/\ Runs(j) /\ jobs[j].kind = "all" /\ Active(j)
           /\ jobs[j].stopAt = <<>> /\ jobs'[j].stopAt = <<>>) =>
            \A h \in {SentAfter(j, PostedBy(j))} :
              /\ \A q \in 1..Len(h) : h[q].type # "stopped"
              /\ jobs'[j].pc = "done" =>
                   /\ h[Len(h)].type = "all_complete"
                   /\ \A t \in {SelectSeq(h, LAMBDA m : Terminal(m.type))} :
                        [q \in 1..Len(t) |-> t[q].scene] = jobs[j].batch]_vars

\* the second batch, posted after the first was stopped and so received
\* with the abort flag up, has ended with all_complete
C37_Witness ==
  /\ staleBelow = 2
  /\ ~isAborted
  /\ jobs[2].kind = "all" /\ jobs[2].pc = "done"
  /\ \E q \in 1..Len(toHost) :
       toHost[q].type = "all_complete" /\ toHost[q].job = 2


\* the step posts a stop message
PostsStop ==
  /\ Len(toWorker') = Len(toWorker) + 1
  /\ toWorker'[Len(toWorker')].type = "stop"

\* C38: the stop action posts the stop message and sets the status text,
\* and leaves every scene and the batch-running flag as they are; a scene
\* in a generating status is set back to idle only by a step that applies
\* a 'stopped' notification, which also clears the flag, and the flag is
\* never cleared by the stop action: it falls only when a closing
\* notification is applied.
C38_StopOnlyRequests ==
  [][/\ PostsStop =>
          /\ toWorker' = Append(toWorker, toWorker'[Len(toWorker')])
          /\ generationStatusMessage' = <<"stopping">>
          /\ scenes' = scenes
          /\ isGeneratingClips' = isGeneratingClips
          /\ UNCHANGED <<mode, status, step, countdown, toHost, isAborted,
                         jobs, requests>>
     /\ (/\ Len(scenes') = Len(scenes)
         /\ \E k \in 1..Len(scenes) :
              scenes[k].status \in Generating /\ scenes'[k].status = "idle") =>
          /\ Applies /\ Head(toHost).type = "stopped"
          /\ ~isGeneratingClips'
     /\ (isGeneratingClips /\ ~isGeneratingClips') =>
          Applies /\ Closing(Head(toHost).type)]_vars

\* the stop message was posted and received, 'stopped' is not applied yet:
\* the scene at work is still in its generating status and the flag is up
C38_Witness ==
  /\ generationStatusMessage = <<"stopping">>
  /\ isGeneratingClips /\ isAborted
  /\ toWorker = <<>>
  /\ \E k \in 1..Len(scenes) : scenes[k].status \in Generating
  /\ \A q \in 1..Len(toHost) : toHost[q].type # "stopped"


\* ------------------------------------------------------------- behaviours
\* the worker and the remote services
WorkerStep ==
  \/ WorkerReceive
  \/ \E j \in JobIds, ok \in BOOLEAN, kind \in FailKinds :
       ImageReturns(j, ok, kind)
  \/ \E j \in JobIds, ok \in BOOLEAN, op \in OpStates, kind \in FailKinds :
       VideoStartReturns(j, ok, op, kind)
  \/ \E j \in JobIds, ok \in BOOLEAN, op \in OpStates, kind \in FailKinds :
       PollReturns(j, ok, op, kind)
  \/ \E j \in JobIds, ok \in BOOLEAN : FetchReturns(j, ok)
  \/ \E j \in JobIds : DelayTick(j)

\* the way into the production step
EnterProduction ==
  \/ SelectApiKey
  \/ setMode("GENERATE")
  \/ handleGenerateLyrics
  \/ \E n \in 0..MaxScenes : handleGenerateScenePrompts(n)

\* Spec: one session on the production screen, every pipeline control in use
Next ==
  \/ EnterProduction
  \/ \E d \in 0..MaxDelay : setGenerationDelay(d)
  \/ \E id \in 1..MaxScenes : handleGenerateSingleClip(id)
  \/ handleGenerateAllClips
  \/ handleStopGeneration
  \/ ApplyNotification
  \/ WorkerStep

Spec == Init /\ [][Next]_vars

\* SpecPoll: clips generated one by one, with the scheduling the poller
\* relies on: the host takes the notifications posted to it, and the
\* service comes to report the operation done.  A query answered `pending`
\* changes nothing, so a run of them is a run of stuttering steps.
PollAnswered ==
  \E j \in JobIds, ok \in BOOLEAN, op \in OpStates, kind \in FailKinds :
    PollReturns(j, ok, op, kind)
PollReportsDone(j) ==
  \E op \in OpStates \ {PendingOp}, kind \in FailKinds :
    PollReturns(j, TRUE, op, kind)

NextPoll ==
  \/ EnterProduction
  \/ \E id \in 1..MaxScenes : handleGenerateSingleClip(id)
  \/ ApplyNotification
  \/ WorkerReceive
  \/ \E j \in JobIds, ok \in BOOLEAN, kind \in FailKinds :
       ImageReturns(j, ok, kind)
  \/ \E j \in JobIds, ok \in BOOLEAN, op \in OpStates, kind \in FailKinds :
       VideoStartReturns(j, ok, op, kind)
  \/ PollAnswered
  \/ \E j \in JobIds, ok \in BOOLEAN : FetchReturns(j, ok)

SpecPoll ==
  /\ Init /\ [][NextPoll]_vars
  /\ WF_vars(ApplyNotification)
  /\ \A j \in JobIds : SF_vars(PollReportsDone(j))

\* SpecRetry: a session of up to MaxAttempts jobs on a list of two scenes,
\* the single clips all of the first scene, with image calls that may fail
\* and video calls that succeed at the first query
NextRetry ==
  \/ SelectApiKey
  \/ setMode("GENERATE")
  \/ handleGenerateLyrics
  \/ handleGenerateScenePrompts(2)
  \/ handleGenerateSingleClipCapped(1, MaxAttempts)
  \/ handleGenerateAllClipsCapped(MaxAttempts)
  \/ handleStopGeneration
  \/ ApplyNotification
  \/ WorkerReceive
  \/ \E j \in JobIds, ok \in BOOLEAN : ImageReturns(j, ok, "other")
  \/ \E j \in JobIds : VideoStartReturns(j, TRUE, OkOp, "other")
  \/ \E j \in JobIds : FetchReturns(j, TRUE)
  \/ \E j \in JobIds : DelayTick(j)

SpecRetry == Init /\ [][NextRetry]_vars

\* SpecClassify: single clips of a one-scene list whose remote calls, when
\* they fail, throw `caught`; the error notification carries what the
\* host's test makes of getFriendlyErrorMessage(caught)
InitClassify ==
  /\ lyrics = <<>> /\ parsed = <<>> /\ prompts = <<>>
  /\ availablePrompts = <<>> /\ sceneData = <<>> /\ pass = "none"
  /\ caught \in Errors
  /\ revoked = {}
  /\ resetBelow = 0
  /\ mode = "SELECT" /\ status = "IDLE" /\ step = "LYRICS"
  /\ isKeySelected = FALSE /\ generatedVideoUrl = FALSE
  /\ uploading = FALSE
  /\ scenes = <<>> /\ isGeneratingPrompts = FALSE
  /\ isGeneratingClips = FALSE /\ generationDelay = 1
  /\ countdown = 0 /\ generationStatusMessage = <<"">>
  /\ toWorker = <<>> /\ toHost = <<>>
  /\ isAborted = FALSE /\ jobs = [j \in JobIds |-> NoJob] /\ requests = {}
  /\ nextJob = 1 /\ resets = 0 /\ staleBelow = 1

NextClassify ==
  \/ SelectApiKey
  \/ setMode("GENERATE")
  \/ handleGenerateLyrics
  \/ handleGenerateScenePrompts(1)
  \/ handleGenerateSingleClip(1)
  \/ ApplyNotification
  \/ WorkerReceive
  \/ \E j \in JobIds, ok \in BOOLEAN :
       ImageReturns(j, ok, Seen(getFriendlyErrorMessage(caught)))
  \/ \E j \in JobIds, ok \in BOOLEAN :
       VideoStartReturns(j, ok, OkOp, Seen(getFriendlyErrorMessage(caught)))
  \/ \E j \in JobIds : FetchReturns(j, TRUE)

SpecClassify == InitClassify /\ [][NextClassify]_vars

\* remote services that answer without failure
WorkerOk ==
  \/ WorkerReceive
  \/ \E j \in JobIds : ImageReturns(j, TRUE, "other")
  \/ \E j \in JobIds, op \in {PendingOp, OkOp} :
       VideoStartReturns(j, TRUE, op, "other")
  \/ \E j \in JobIds, op \in {PendingOp, OkOp} :
       PollReturns(j, TRUE, op, "other")
  \/ \E j \in JobIds : FetchReturns(j, TRUE)
  \/ \E j \in JobIds : DelayTick(j)

\* remote services that answer without failure and whose video operation
\* is done at the first query
WorkerPrompt ==
  \/ WorkerReceive
  \/ \E j \in JobIds : ImageReturns(j, TRUE, "other")
  \/ \E j \in JobIds : VideoStartReturns(j, TRUE, OkOp, "other")
  \/ \E j \in JobIds : FetchReturns(j, TRUE)
  \/ \E j \in JobIds : DelayTick(j)

\* SpecReset: batches over MaxScenes scenes, across screens and resets, with
\* such services
NextReset ==
  \/ SelectApiKey
  \/ \E m \in {"SELECT", "GENERATE", "UPLOAD"} : setMode(m)
  \/ handleGenerateLyrics
  \/ handleGenerateScenePrompts(MaxScenes)
  \/ handleGenerateVideo
  \/ handleGenerateVideoDone(TRUE, "other")
  \/ handleReset
  \/ handleGenerateAllClips
  \/ handleStopGeneration
  \/ ApplyNotification
  \/ WorkerPrompt

SpecReset == Init /\ [][NextReset]_vars

\* SpecStore: the Scene Store across a reset, on lists of StoreScenes
\* scenes, with remote services that answer without failure
NextStore ==
  \/ SelectApiKey
  \/ \E m \in {"SELECT", "GENERATE", "UPLOAD"} : setMode(m)
  \/ handleGenerateLyrics
  \/ handleGenerateScenePrompts(StoreScenes)
  \/ handleGenerateVideo
  \/ handleGenerateVideoDone(TRUE, "other")
  \/ handleReset
  \/ handleGenerateAllClips
  \/ handleStopGeneration
  \/ ApplyNotification
  \/ WorkerOk

SpecStore == Init /\ [][NextStore]_vars

\* SpecMatch: one matching pass for every section list and candidate list
\* within the bounds
Headers ==
  {<<>>, <<"a">>, <<"[", "A", "]">>, <<"a", " ", "b">>, <<"b", " ", ":">>}
Contents == {"la", "na"}
SectionLists ==
  UNION {[1..n -> [header : Headers, content : Contents]] :
           n \in 0..MaxSections}
LabelLists == UNION {[1..n -> Headers] : n \in 0..MaxCandidates}

InitMatch ==
  /\ mode = "GENERATE" /\ status = "IDLE" /\ step = "PRODUCTION"
  /\ isKeySelected = TRUE /\ generatedVideoUrl = FALSE
  /\ uploading = FALSE
  /\ scenes = <<>> /\ isGeneratingPrompts = TRUE
  /\ isGeneratingClips = FALSE /\ generationDelay = 1
  /\ countdown = 0 /\ generationStatusMessage = <<"">>
  /\ toWorker = <<>> /\ toHost = <<>>
  /\ isAborted = FALSE /\ jobs = [j \in JobIds |-> NoJob] /\ requests = {}
  /\ nextJob = 1 /\ resets = 0 /\ staleBelow = 1
  /\ lyrics = <<>>
  /\ parsed \in SectionLists
  /\ \E labels \in LabelLists :
       prompts = [c \in 1..Len(labels) |->
                    [section |-> labels[c], imagePrompt |-> c,
                     animationPrompt |-> c]]
  /\ availablePrompts = prompts
  /\ sceneData = <<>>
  /\ pass = "matching"
  /\ caught = NoError
  /\ revoked = {}
  /\ resetBelow = 0

NextMatch ==
  \/ MatchSection
  \/ MatchEnd

SpecMatch == InitMatch /\ [][NextMatch]_vars

\* SpecSegment: one call of parseLyrics for every text of up to MaxTokens
\* pieces
Tokens ==
  {<<"\n">>, <<" ">>, <<"\r">>, <<"x">>, <<":">>, <<"\\", "n">>,
   <<"[", "a", "]">>,
   <<"C", "h", "o", "r", "u", "s">>,
   <<"V", "e", "r", "s", "e", " ", "1">>}
TokenLists == UNION {[1..n -> Tokens] : n \in 0..MaxTokens}

RECURSIVE Flatten(_)
Flatten(pieces) ==
  IF pieces = <<>> THEN <<>> ELSE Head(pieces) \o Flatten(Tail(pieces))

\* texts of one or two blocks that open with a keyword line
Capitalized(kw) ==
  <<UpperCase[CHOOSE i \in 1..Len(LowerCase) : LowerCase[i] = kw[1]]>> \o
  Tail(kw)
KeywordLines ==
  {Capitalized(kw) \o number \o colon :
     kw \in appKeywords, number \in {<<>>, <<" ", "1">>},
     colon \in {<<>>, <<":">>}}
LyricLines ==
  {<<"H", "e", "l", "l", "o", " ", "t", "h", "e", "r", "e">>,
   <<"S", "h", "i", "n", "e", " ", "o", "n">>}
KeywordBlocks ==
  {line \o <<"\n">> \o lyric : line \in KeywordLines, lyric \in LyricLines}
KeywordTexts ==
  KeywordBlocks \cup
  {first \o <<"\n", "\n">> \o second :
     first \in {b \in KeywordBlocks : b[Len(b)] = "e"},
     second \in {b \in KeywordBlocks : b[Len(b)] = "n"}}

InitSegment ==
  /\ mode = "GENERATE" /\ status = "IDLE" /\ step = "PRODUCTION"
  /\ isKeySelected = TRUE /\ generatedVideoUrl = FALSE
  /\ uploading = FALSE
  /\ scenes = <<>> /\ isGeneratingPrompts = TRUE
  /\ isGeneratingClips = FALSE /\ generationDelay = 1
  /\ countdown = 0 /\ generationStatusMessage = <<"">>
  /\ toWorker = <<>> /\ toHost = <<>>
  /\ isAborted = FALSE /\ jobs = [j \in JobIds |-> NoJob] /\ requests = {}
  /\ nextJob = 1 /\ resets = 0 /\ staleBelow = 1
  /\ \/ \E pieces \in TokenLists : lyrics = Flatten(pieces)
     \/ lyrics \in KeywordTexts
  /\ parsed = <<>> /\ prompts = <<>> /\ availablePrompts = <<>>
  /\ sceneData = <<>>
  /\ pass = "parsing"
  /\ caught = NoError
  /\ revoked = {}
  /\ resetBelow = 0

NextSegment ==
  \/ ParseImported
  \/ ParseLocal

SpecSegment == InitSegment /\ [][NextSegment]_vars

====
